---- MODULE Spec2Model ----
(***************************************************************************)
(* AI-vs-human voice detector: the classifier object (model/model.py), the *)
(* audio processor (app/audio_processor.py), the feature extractor         *)
(* (app/feature_extractor.py) and the detect endpoint (main.py).           *)
(*                                                                         *)
(* Python sequences are 0-indexed, TLA+ sequences 1-indexed: element i of  *)
(* a Python array is element i+1 of the sequence that models it.           *)
(* Probabilities are fixed-point: the integer k stands for k / PScale.     *)
(***************************************************************************)
EXTENDS Integers, Sequences, FiniteSets, TLC

VARIABLES
    voice_model,    \* the global VoiceDetectionModel instance (model.py:198)
    disk,           \* the artifacts at config.MODEL_PATH / config.SCALER_PATH
    phase,          \* the service process: "starting" | "serving" | "library"
    call,           \* the operation invoked last (or the request in flight)
    ret             \* what it returned (or the response)

vars == <<voice_model, disk, phase, call, ret>>

\* ------------------------------------------------------------------ bounds

\* probabilities are multiples of 1/PScale
PScale == 2

\* load_model calls counted per behaviour (explicit calls of SpecModel)
MaxLoads == 3

\* waveforms of SpecAudio: at most MaxLen samples, each k / MaxAmp with
\* k in -MaxAmp..MaxAmp
MaxLen == 3
MaxAmp == 2

\* sample counts are tried within Slack samples of each duration limit
Slack == 1

\* F0 contours of SpecPitch: at most MaxFrames frames, each unvoiced or
\* voiced at one of the pitches 1..MaxF0
MaxFrames == 3
MaxF0 == 3

\* importance weightings of SpecTop: at most MaxFeat weights, each in
\* 0..MaxWeight; n_top in 1..MaxTop
MaxFeat == 3
MaxWeight == 2
MaxTop == 4

\* feature values and confidences of SpecExplain lie on each threshold and
\* Step hundredths to either side of it
Step == 1

\* requests in flight at once in SpecConcurrent
MaxRequests == 2

\* audio_base64 strings of SpecBase64: up to MaxQuads groups of four
\* base64 characters, 4 * MaxQuads above the schema's minimum length
MaxQuads == 26

\* decoded files of SpecDownmix: at most MaxDecoded frames of one or two
\* channels, each sample k / MaxAmp
MaxDecoded == 2

\* ------------------------------------------------- classifier: model.py

\* VoiceDetectionModel.__init__; loads counts the load_model calls made
NewVoiceDetectionModel ==
    [model |-> "None", scaler |-> "None", feature_importance |-> "None",
     is_loaded |-> FALSE, loads |-> 0]

\* what can lie at MODEL_PATH and SCALER_PATH; importances: whether the
\* deserialized model has the attribute feature_importances_
DiskStates ==
    { [model |-> m, scaler |-> s, importances |-> i] :
        m \in {"missing", "ok", "corrupt"},
        s \in {"missing", "ok", "corrupt"},
        i \in BOOLEAN }

\* _create_dummy_model: a random forest fitted in memory, no scaler
CreateDummyModel(self) ==
    [self EXCEPT !.model = "dummy", !.scaler = "None",
                 !.feature_importance = "dummy", !.is_loaded = TRUE]

\* the except branch of load_model, re-raising instead of bootstrapping
LoadFailedReraise(self) ==
    self

\* the except branch of load_model (model.py:48-51)
LoadFailed(self) ==
    CreateDummyModel(self)

\* load_model: every statement up to the one that throws has taken effect
\* when the except branch runs
LoadModel(self, d) ==
    LET s0 == [self EXCEPT !.loads = @ + 1]
    IN  IF d.model = "missing" THEN CreateDummyModel(s0)
        ELSE IF d.model = "corrupt" THEN LoadFailed(s0)
        ELSE LET s1 == [s0 EXCEPT !.model = "artifact"]
             IN  IF d.scaler = "corrupt" THEN LoadFailed(s1)
                 ELSE LET s2 == IF d.scaler = "ok"
                                THEN [s1 EXCEPT !.scaler = "artifact"]
                                ELSE s1
                          s3 == IF d.importances
                                THEN [s2 EXCEPT !.feature_importance = "artifact"]
                                ELSE s2
                      IN  [s3 EXCEPT !.is_loaded = TRUE]

\* predict's decision, with >= in place of >
ClassifyTieAI(p) ==
    IF p[2] >= p[1]
    THEN [classification |-> "AI_GENERATED", confidence |-> p[2]]
    ELSE [classification |-> "HUMAN", confidence |-> p[1]]

\* predict's decision, reporting the probability of the label not chosen
ClassifyOtherConfidence(p) ==
    IF p[2] > p[1]
    THEN [classification |-> "AI_GENERATED", confidence |-> p[1]]
    ELSE [classification |-> "HUMAN", confidence |-> p[2]]

\* predict, lines 125-135: p[1] is probabilities[0] (human), p[2] is
\* probabilities[1] (AI)
Classify(p) ==
    IF p[2] > p[1]
    THEN [classification |-> "AI_GENERATED", confidence |-> p[2]]
    ELSE [classification |-> "HUMAN", confidence |-> p[1]]

\* the lazy load at the head of predict, without its is_loaded test
EnsureLoadedAlways(self, d) ==
    LoadModel(self, d)

\* predict, lines 111-112
EnsureLoaded(self, d) ==
    IF ~self.is_loaded THEN LoadModel(self, d) ELSE self

\* what the scaler and the model do with one feature vector: transform and
\* predict_proba either throw or return; proba is predict_proba(...)[0]
Probabilities == (0..PScale) \X (0..PScale)

InferenceOutcomes ==
    { [transform |-> t, infer |-> "ok", proba |-> p] :
        t \in {"ok", "raise"}, p \in Probabilities }
    \cup
    { [transform |-> t, infer |-> "raise", proba |-> <<0, 0>>] :
        t \in {"ok", "raise"} }

PredictionError(self, fed) ==
    [self |-> self, raised |-> TRUE, fed |-> fed,
     classification |-> "None", confidence |-> 0, probabilities |-> <<0, 0>>]

\* predict without lines 119-120: the scaler is never applied
PredictUnscaled(self, d, x) ==
    LET s == EnsureLoaded(self, d)
    IN  IF x.infer = "raise"
        THEN PredictionError(s, "raw")
        ELSE LET c == Classify(x.proba)
             IN  [self |-> s, raised |-> FALSE, fed |-> "raw",
                  classification |-> c.classification,
                  confidence |-> c.confidence,
                  probabilities |-> x.proba]

\* predict: the classifier after the call and the tuple returned or the
\* exception raised; fed is what predict_proba was given
Predict(self, d, x) ==
    LET s == EnsureLoaded(self, d)
        fed == IF s.scaler # "None" THEN "scaled" ELSE "raw"
    IN  IF s.scaler # "None" /\ x.transform = "raise"
        THEN PredictionError(s, "nothing")
        ELSE IF x.infer = "raise"
        THEN PredictionError(s, fed)
        ELSE LET c == Classify(x.proba)
             IN  [self |-> s, raised |-> FALSE, fed |-> fed,
                  classification |-> c.classification,
                  confidence |-> c.confidence,
                  probabilities |-> x.proba]

\* ------------------------------------- SpecModel: the classifier as an object

NoCall == [op |-> "none"]

InitModel ==
    /\ voice_model = NewVoiceDetectionModel
    /\ disk \in DiskStates
    /\ phase = "library"
    /\ call = NoCall
    /\ ret = NoCall

\* voice_model.load_model()
LoadModelCall ==
    /\ phase = "library"
    /\ voice_model.loads < MaxLoads
    /\ voice_model' = LoadModel(voice_model, disk)
    /\ call' = [op |-> "load_model", before |-> voice_model, disk |-> disk]
    /\ ret' = [op |-> "load_model"]
    /\ UNCHANGED <<disk, phase>>

\* voice_model.predict(features)
PredictCall ==
    /\ phase = "library"
    /\ \E x \in InferenceOutcomes :
         LET r == Predict(voice_model, disk, x)
         IN  /\ voice_model' = r.self
             /\ call' = [op |-> "predict", x |-> x, before |-> voice_model]
             /\ ret' = [op |-> "predict", raised |-> r.raised, fed |-> r.fed,
                        classification |-> r.classification,
                        confidence |-> r.confidence,
                        probabilities |-> r.probabilities]
    /\ UNCHANGED <<disk, phase>>

\* the environment: an artifact is written, replaced, damaged or removed
\* (train_model.py and train_with_custom_data.py write both paths)
DiskChange ==
    /\ phase = "library"
    /\ \E d \in DiskStates : d # disk /\ disk' = d
    /\ UNCHANGED <<voice_model, phase, call, ret>>

NextModel ==
    \/ LoadModelCall
    \/ PredictCall
    \/ DiskChange

SpecModel == InitModel /\ [][NextModel]_vars

\* ------------- SpecTrained: the classifier and the repository's trainers

\* nothing at MODEL_PATH or SCALER_PATH
NoArtifact ==
    [model |-> "missing", scaler |-> "missing", importances |-> FALSE,
     estimator |-> "None"]

\* what model/train_model.py saves: a soft-voting ensemble, which has no
\* attribute feature_importances_, and its StandardScaler
TrainModelArtifact ==
    [model |-> "ok", scaler |-> "ok", importances |-> FALSE,
     estimator |-> "VotingClassifier"]

\* what train_with_custom_data.py saves: a random forest and its
\* StandardScaler
CustomDataArtifact ==
    [model |-> "ok", scaler |-> "ok", importances |-> TRUE,
     estimator |-> "RandomForestClassifier"]

\* the label given to AI voices where each model is fitted, which is the
\* column of predict_proba that holds their probability: y = [0] * n for
\* ai_voices in _create_dummy_model, y.append(0) in generate_synthetic_data,
\* labels.append(1) under 'ai' in get_file_list
AiLabel(model) ==
    IF model = "dummy" THEN 0
    ELSE IF model = "VotingClassifier" THEN 0
    ELSE 1

\* self.model after joblib.load(model_path): the estimator that was saved
Deserialized(self, d) ==
    IF self.model = "artifact" THEN [self EXCEPT !.model = d.estimator] ELSE self

InitTrained ==
    /\ voice_model = NewVoiceDetectionModel
    /\ disk = NoArtifact
    /\ phase = "library"
    /\ call = NoCall
    /\ ret = NoCall

\* python model/train_model.py
TrainModelMain ==
    /\ disk # TrainModelArtifact
    /\ disk' = TrainModelArtifact
    /\ UNCHANGED <<voice_model, phase, call, ret>>

\* python train_with_custom_data.py
TrainWithCustomDataMain ==
    /\ disk # CustomDataArtifact
    /\ disk' = CustomDataArtifact
    /\ UNCHANGED <<voice_model, phase, call, ret>>

\* voice_model.load_model()
LoadTrainedCall ==
    /\ voice_model.loads < MaxLoads
    /\ voice_model' = Deserialized(LoadModel(voice_model, disk), disk)
    /\ call' = [op |-> "load_model", before |-> voice_model, disk |-> disk]
    /\ ret' = [op |-> "load_model"]
    /\ UNCHANGED <<disk, phase>>

\* voice_model.predict(features)
PredictTrainedCall ==
    /\ \E x \in InferenceOutcomes :
         LET r == Predict(voice_model, disk, x)
         IN  /\ voice_model' = Deserialized(r.self, disk)
             /\ call' = [op |-> "predict", x |-> x, before |-> voice_model]
             /\ ret' = [op |-> "predict", raised |-> r.raised, fed |-> r.fed,
                        classification |-> r.classification,
                        confidence |-> r.confidence,
                        probabilities |-> r.probabilities]
    /\ UNCHANGED <<disk, phase>>

NextTrained ==
    \/ TrainModelMain
    \/ TrainWithCustomDataMain
    \/ LoadTrainedCall
    \/ PredictTrainedCall

SpecTrained == InitTrained /\ [][NextTrained]_vars

\* ------------------------------------------- audio: app/audio_processor.py

\* config.SAMPLE_RATE, which AudioProcessor.__init__ copies
SAMPLE_RATE == 22050

\* the defaults of validate_audio_duration, in tenths of a second
MIN_DURATION_TENTHS == 5
MAX_DURATION_TENTHS == 300

\* a sample is the rational num / den, den > 0
Rat(n, d) == [num |-> n, den |-> d]

Abs(i) == IF i < 0 THEN -i ELSE i

RatAbs(q) == Rat(Abs(q.num), q.den)

RatLess(a, b) == a.num * b.den < b.num * a.den

RatEq(a, b) == a.num * b.den = b.num * a.den

\* a / b for b > 0; IEEE division is exact on x / x and keeps |a / b| <= 1
\* when |a| <= |b|, as the rational quotient does
RatDiv(a, b) == Rat(a.num * b.den, a.den * b.num)

\* the 1-D arrays tried: librosa.load(..., mono=True) returns one channel
Waveforms ==
    UNION { [1..n -> { Rat(k, MaxAmp) : k \in -MaxAmp..MaxAmp }] : n \in 0..MaxLen }

\* np.max(np.abs(audio_array)) on a non-empty array
RECURSIVE PeakFrom(_, _)
PeakFrom(a, i) ==
    IF i = Len(a) THEN RatAbs(a[i])
    ELSE LET rest == PeakFrom(a, i + 1)
         IN  IF RatLess(rest, RatAbs(a[i])) THEN RatAbs(a[i]) ELSE rest

Peak(a) == PeakFrom(a, 1)

\* np.max raises ValueError on a zero-size array
PeakRaises(n) == n = 0

\* _normalize_audio
NormalizeAudio(a) ==
    IF PeakRaises(Len(a)) THEN [raised |-> TRUE, audio |-> a]
    ELSE LET max_val == Peak(a)
         IN  [raised |-> FALSE,
              audio |-> IF max_val.num > 0
                        THEN [i \in 1..Len(a) |-> RatDiv(a[i], max_val)]
                        ELSE a]

\* validate_audio_duration with < and > replaced by <= and >=
ValidateAudioDurationStrict(n, min_tenths, max_tenths) ==
    IF n * 10 <= min_tenths * SAMPLE_RATE THEN "ValueError"
    ELSE IF n * 10 >= max_tenths * SAMPLE_RATE THEN "ValueError"
    ELSE "True"

\* validate_audio_duration on an array of n samples: duration is
\* n / sample_rate, compared exactly (limits in tenths of a second)
ValidateAudioDuration(n, min_tenths, max_tenths) ==
    IF n * 10 < min_tenths * SAMPLE_RATE THEN "ValueError"
    ELSE IF n * 10 > max_tenths * SAMPLE_RATE THEN "ValueError"
    ELSE "True"

\* the sample counts tried: none, and those within Slack samples of 0.3 s,
\* 0.5 s, 30 s and 45 s
SampleCounts ==
    { n \in { (t * SAMPLE_RATE) \div 10 + j :
                t \in {0, 3, MIN_DURATION_TENTHS, MAX_DURATION_TENTHS, 450},
                j \in -Slack..Slack } : n >= 0 }

\* the limits tried: the defaults and a narrower pair
DurationLimits ==
    { <<MIN_DURATION_TENTHS, MAX_DURATION_TENTHS>>, <<3, 5>> }

\* ----------------------------------------- SpecAudio: the audio processor

\* the calls tried, one per behaviour
AudioCalls ==
    { [op |-> "_normalize_audio", audio |-> a] : a \in Waveforms }
    \cup
    { [op |-> "validate_audio_duration", n |-> n, min |-> lim[1], max |-> lim[2]] :
        n \in SampleCounts, lim \in DurationLimits }

InitAudio ==
    /\ voice_model = NewVoiceDetectionModel
    /\ disk = [model |-> "missing", scaler |-> "missing", importances |-> FALSE]
    /\ phase = "library"
    /\ call \in AudioCalls
    /\ ret = NoCall

\* audio_processor._normalize_audio(audio_array)
NormalizeAudioCall ==
    /\ call.op = "_normalize_audio"
    /\ ret = NoCall
    /\ LET r == NormalizeAudio(call.audio)
       IN  ret' = [op |-> "_normalize_audio", raised |-> r.raised,
                   audio |-> r.audio]
    /\ UNCHANGED <<voice_model, disk, phase, call>>

\* audio_processor.validate_audio_duration(audio_array, min, max)
ValidateAudioDurationCall ==
    /\ call.op = "validate_audio_duration"
    /\ ret = NoCall
    /\ ret' = [op |-> "validate_audio_duration",
               result |-> ValidateAudioDuration(call.n, call.min, call.max)]
    /\ UNCHANGED <<voice_model, disk, phase, call>>

NextAudio ==
    \/ NormalizeAudioCall
    \/ ValidateAudioDurationCall

SpecAudio == InitAudio /\ [][NextAudio]_vars

\* ------------------------ SpecDownmix: process_audio on decoded channels

\* the files tried, as the decoder reads them: a sequence of frames, each
\* frame one sample per channel, mono or stereo
DecodedFiles ==
    UNION { [1..n -> [1..nch -> { Rat(k, MaxAmp) : k \in -MaxAmp..MaxAmp }]] :
              n \in 0..MaxDecoded, nch \in {1, 2} }

RECURSIVE SumNum(_)
SumNum(frame) == IF frame = <<>> THEN 0 ELSE Head(frame).num + SumNum(Tail(frame))

\* a decoder that keeps the first channel only
FirstChannel(frame) == frame[1]

\* librosa.to_mono on one frame: the mean of its channels (samples of one
\* file share their denominator)
MeanOfChannels(frame) == Rat(SumNum(frame), frame[1].den * Len(frame))

\* librosa.load(temp_path, sr=self.sample_rate, mono=True): one channel,
\* the average of the file's channels
LibrosaLoadMono(file) == [i \in 1..Len(file) |-> MeanOfChannels(file[i])]

\* _ensure_mono on an array of ndim dimensions: np.mean(axis=1) of a 2-D
\* array, the array itself when it has one dimension
EnsureMono(audio_array, ndim) ==
    IF ndim > 1
    THEN [i \in 1..Len(audio_array) |-> MeanOfChannels(audio_array[i])]
    ELSE audio_array

\* process_audio on a file that decodes: _convert_to_wav, _normalize_audio,
\* _ensure_mono; ndim is the number of dimensions of the array normalized
ProcessAudioArray(file) ==
    LET converted == LibrosaLoadMono(file)
        normalized == NormalizeAudio(converted)
    IN  IF normalized.raised
        THEN [raised |-> TRUE, audio |-> <<>>, ndim |-> 1]
        ELSE [raised |-> FALSE, audio |-> EnsureMono(normalized.audio, 1), ndim |-> 1]

InitDownmix ==
    /\ voice_model = NewVoiceDetectionModel
    /\ disk = [model |-> "missing", scaler |-> "missing", importances |-> FALSE]
    /\ phase = "library"
    /\ call \in { [op |-> "process_audio", file |-> f] : f \in DecodedFiles }
    /\ ret = NoCall

\* audio_processor.process_audio(audio_bytes)
ProcessAudioCall ==
    /\ call.op = "process_audio"
    /\ ret = NoCall
    /\ LET r == ProcessAudioArray(call.file)
       IN  ret' = [op |-> "process_audio", raised |-> r.raised,
                   audio |-> r.audio, ndim |-> r.ndim]
    /\ UNCHANGED <<voice_model, disk, phase, call>>

NextDownmix ==
    \/ ProcessAudioCall

SpecDownmix == InitDownmix /\ [][NextDownmix]_vars

\* ------------- SpecBase64: audio_base64 through the schema and step 1

\* Field(min_length=100) of VoiceDetectionRequest.audio_base64
MIN_LENGTH == 100

\* An audio_base64 string by its structure: leading characters, quads
\* groups of four characters of the base64 alphabet, one character put
\* among them or none, the characters that end the data, trailing
\* characters.
B64String(pre, quads, inner, tail, post) ==
    [pre |-> pre, quads |-> quads, inner |-> inner, tail |-> tail, post |-> post]

B64Strings ==
    { B64String(pre, q, inner, tail, post) :
        pre \in {"", " "},
        q \in {0, 1} \cup ((MaxQuads - 2)..MaxQuads),
        inner \in {"", "\n", " ", "!"},
        tail \in {"", "A", "AA", "AAA", "AA==", "AAA=", "A==="},
        post \in {"", " ", "\n"} }

\* len(v)
B64Len(v) == Len(v.pre) + 4 * v.quads + Len(v.inner) + Len(v.tail) + Len(v.post)

\* base64.b64decode(v, validate=True): every character in the alphabet,
\* the data a whole number of groups, padded with = to a multiple of four
B64Decode(v) ==
    IF /\ v.pre = "" /\ v.inner = "" /\ v.post = ""
       /\ v.tail \in {"", "AA==", "AAA="}
    THEN "bytes" ELSE "binascii.Error"

\* validate_base64 with validate=False: characters outside the alphabet
\* are discarded, so only the padding decides
ValidateBase64Lenient(v) == v.tail \in {"", "AA==", "AAA="}

\* VoiceDetectionRequest.validate_base64: v is kept when b64decode(v,
\* validate=True) returns
ValidateBase64(v) == B64Decode(v) = "bytes"

\* the schema on audio_base64: min_length, then the validator
ValidateAudioBase64(v) == B64Len(v) >= MIN_LENGTH /\ ValidateBase64(v)

\* base64_string.strip().replace('\n', '').replace('\r', '')
StripNewlines(v) ==
    [v EXCEPT !.pre = "", !.post = "",
              !.inner = IF @ = "\n" THEN "" ELSE @]

\* decode_base64_audio: bytes, or ValueError
DecodeBase64String(v) ==
    IF B64Decode(StripNewlines(v)) = "bytes" THEN "bytes" ELSE "ValueError"

\* detect_voice, step 1 (main.py:119-126): 400 on ValueError
DecodeStep(v) ==
    IF DecodeBase64String(v) = "ValueError" THEN 400 ELSE 200

InitBase64 ==
    /\ voice_model = NewVoiceDetectionModel
    /\ disk = [model |-> "missing", scaler |-> "missing", importances |-> FALSE]
    /\ phase = "schema"
    /\ call \in { [op |-> "detect", audio_base64 |-> v] : v \in B64Strings }
    /\ ret = NoCall

\* the body does not validate: 422, the handler is not called
SchemaRejects ==
    /\ phase = "schema"
    /\ ~ValidateAudioBase64(call.audio_base64)
    /\ phase' = "done"
    /\ ret' = [op |-> "detect", handler |-> FALSE, status |-> 422]
    /\ UNCHANGED <<voice_model, disk, call>>

\* the body validates: detect_voice is called with the request
SchemaAccepts ==
    /\ phase = "schema"
    /\ ValidateAudioBase64(call.audio_base64)
    /\ phase' = "handler"
    /\ UNCHANGED <<voice_model, disk, call, ret>>

\* detect_voice, step 1
DecodeStepCall ==
    /\ phase = "handler"
    /\ phase' = "done"
    /\ ret' = [op |-> "detect", handler |-> TRUE,
               status |-> DecodeStep(call.audio_base64)]
    /\ UNCHANGED <<voice_model, disk, call>>

NextBase64 ==
    \/ SchemaRejects
    \/ SchemaAccepts
    \/ DecodeStepCall

SpecBase64 == InitBase64 /\ [][NextBase64]_vars

\* ---------------------------------- features: app/feature_extractor.py

\* config.N_MFCC
N_MFCC == 13

\* one element of the feature vector: the quantity it holds, by the family
\* that computes it and its place (from 0) in that family's list
Feat(family, name, k) == [family |-> family, name |-> name, k |-> k]

\* a family's list from the names in its return statement
Family(family, names) ==
    [i \in 1..Len(names) |-> Feat(family, names[i], i - 1)]

\* the librosa transforms extract_features calls, each of which may throw
Transforms ==
    {"mfcc", "pyin", "rms", "zero_crossing_rate", "spectral_centroid",
     "spectral_rolloff", "spectral_flatness", "spectral_bandwidth",
     "spectral_contrast", "onset_strength", "beat_track", "autocorrelate",
     "hpss"}

\* a family's outcome: raised when one of the transforms it uses throws
FamilyOutcome(uses, throws, list) ==
    [raised |-> (uses \cap throws # {}), list |-> list]

\* _extract_mfcc: the mean over time of each of the n_mfcc coefficients
ExtractMfcc(throws) ==
    FamilyOutcome({"mfcc"}, throws,
                  [i \in 1..N_MFCC |-> Feat("mfcc", "mfcc_mean", i - 1)])

\* _extract_pitch_features
ExtractPitchFeatures(throws) ==
    FamilyOutcome({"pyin"}, throws,
                  Family("pitch", <<"pitch_mean", "pitch_std", "pitch_min",
                                    "pitch_max", "pitch_range">>))

\* _extract_energy_features
ExtractEnergyFeatures(throws) ==
    FamilyOutcome({"rms", "zero_crossing_rate"}, throws,
                  Family("energy", <<"rms_mean", "rms_std", "zcr_mean", "zcr_std">>))

\* _extract_spectral_features
ExtractSpectralFeatures(throws) ==
    FamilyOutcome({"spectral_centroid", "spectral_rolloff", "spectral_flatness",
                   "spectral_bandwidth", "spectral_contrast"}, throws,
                  Family("spectral",
                         <<"centroid_mean", "centroid_std",
                           "rolloff_mean", "rolloff_std",
                           "flatness_mean", "flatness_std",
                           "bandwidth_mean", "bandwidth_std",
                           "contrast_mean", "contrast_std">>))

\* _extract_prosody_features returning the tempo ahead of the onset pair
ExtractProsodyTempoFirst(throws) ==
    FamilyOutcome({"onset_strength", "beat_track", "autocorrelate", "hpss"}, throws,
                  Family("prosody",
                         <<"tempo", "onset_mean", "onset_std",
                           "autocorr_mean", "autocorr_std",
                           "harmonic_ratio", "percussive_ratio">>))

\* _extract_prosody_features
ExtractProsodyFeatures(throws) ==
    FamilyOutcome({"onset_strength", "beat_track", "autocorrelate", "hpss"}, throws,
                  Family("prosody",
                         <<"onset_mean", "onset_std", "tempo",
                           "autocorr_mean", "autocorr_std",
                           "harmonic_ratio", "percussive_ratio">>))

\* features.extend(...) for each family in turn: the vector, or the
\* exception of the first family that raises
RECURSIVE ExtendAll(_, _)
ExtendAll(features, families) ==
    IF families = <<>> THEN [raised |-> FALSE, features |-> features]
    ELSE IF Head(families).raised THEN [raised |-> TRUE, features |-> <<>>]
    ELSE ExtendAll(features \o Head(families).list, Tail(families))

\* extract_features extending with the energy family before the pitch family
ExtractFeaturesEnergyFirst(throws) ==
    ExtendAll(<<>>, <<ExtractMfcc(throws), ExtractEnergyFeatures(throws),
                      ExtractPitchFeatures(throws),
                      ExtractSpectralFeatures(throws),
                      ExtractProsodyFeatures(throws)>>)

\* extract_features on audio for which the transforms in throws throw
ExtractFeatures(throws) ==
    ExtendAll(<<>>, <<ExtractMfcc(throws), ExtractPitchFeatures(throws),
                      ExtractEnergyFeatures(throws),
                      ExtractSpectralFeatures(throws),
                      ExtractProsodyFeatures(throws)>>)

\* ------------------------------------ SpecFeatures: the feature extractor

InitFeatures ==
    /\ voice_model = NewVoiceDetectionModel
    /\ disk = [model |-> "missing", scaler |-> "missing", importances |-> FALSE]
    /\ phase = "library"
    /\ call \in { [op |-> "extract_features", throws |-> t] : t \in SUBSET Transforms }
    /\ ret = NoCall

\* feature_extractor.extract_features(audio_array)
ExtractFeaturesCall ==
    /\ call.op = "extract_features"
    /\ ret = NoCall
    /\ LET r == ExtractFeatures(call.throws)
       IN  ret' = [op |-> "extract_features", raised |-> r.raised,
                   features |-> r.features]
    /\ UNCHANGED <<voice_model, disk, phase, call>>

NextFeatures ==
    \/ ExtractFeaturesCall

SpecFeatures == InitFeatures /\ [][NextFeatures]_vars

\* ------------------------- pitch values: _extract_pitch_features in detail

\* one frame of the f0 array librosa.pyin returns: NaN where the frame is
\* unvoiced (fill_na=np.nan), the estimate otherwise
Unvoiced == [nan |-> TRUE, f0 |-> 0]

Voiced(k) == [nan |-> FALSE, f0 |-> k]

\* the f0 arrays tried
Contours ==
    UNION { [1..n -> {Unvoiced} \cup { Voiced(k) : k \in 1..MaxF0 }] :
              n \in 0..MaxFrames }

\* np.nan_to_num(f0) in place of the mask: every frame, NaN read as 0
F0NanAsZero(f0) == f0

\* f0[~np.isnan(f0)]: the estimates of the voiced frames, in order
F0Valid(f0) == SelectSeq(f0, LAMBDA fr : ~fr.nan)

RECURSIVE SumF0(_)
SumF0(v) == IF v = <<>> THEN 0 ELSE Head(v).f0 + SumF0(Tail(v))

RECURSIVE SumSqF0(_)
SumSqF0(v) == IF v = <<>> THEN 0 ELSE Head(v).f0 * Head(v).f0 + SumSqF0(Tail(v))

\* np.min and np.max of a non-empty array
RECURSIVE MinF0(_)
MinF0(v) ==
    IF Len(v) = 1 THEN v[1].f0
    ELSE LET m == MinF0(Tail(v)) IN IF v[1].f0 < m THEN v[1].f0 ELSE m

RECURSIVE MaxF0Of(_)
MaxF0Of(v) ==
    IF Len(v) = 1 THEN v[1].f0
    ELSE LET m == MaxF0Of(Tail(v)) IN IF v[1].f0 > m THEN v[1].f0 ELSE m

\* np.std is the square root of the population variance; the value is
\* carried by its square
Sqrt(q) == [sqrt_of |-> q]

\* the list _extract_pitch_features returns for the contour f0:
\* [pitch_mean, pitch_std, pitch_min, pitch_max, pitch_range]
PitchValues(f0) ==
    LET f0_valid == F0Valid(f0)
        n == Len(f0_valid)
    IN  IF n > 0
        THEN <<Rat(SumF0(f0_valid), n),
               Sqrt(Rat(n * SumSqF0(f0_valid) - SumF0(f0_valid) * SumF0(f0_valid),
                        n * n)),
               Rat(MinF0(f0_valid), 1),
               Rat(MaxF0Of(f0_valid), 1),
               Rat(MaxF0Of(f0_valid) - MinF0(f0_valid), 1)>>
        ELSE <<Rat(0, 1), Sqrt(Rat(0, 1)), Rat(0, 1), Rat(0, 1), Rat(0, 1)>>

\* the vector extract_features returns, the pitch family carrying its values
WithPitchValues(features, f0) ==
    [i \in 1..Len(features) |->
        IF features[i].family = "pitch"
        THEN [features[i] EXCEPT !.name = PitchValues(f0)[features[i].k + 1]]
        ELSE features[i]]

\* ------------------------------- SpecPitch: extract_features and the contour

\* the transforms that throw in the calls tried
PitchThrows == SUBSET {"mfcc", "pyin", "hpss"}

InitPitch ==
    /\ voice_model = NewVoiceDetectionModel
    /\ disk = [model |-> "missing", scaler |-> "missing", importances |-> FALSE]
    /\ phase = "library"
    /\ call \in { [op |-> "extract_features", throws |-> t, f0 |-> c] :
                    t \in PitchThrows, c \in Contours }
    /\ ret = NoCall

\* feature_extractor.extract_features(audio_array), pyin returning call.f0
ExtractFeaturesPitchCall ==
    /\ call.op = "extract_features"
    /\ ret = NoCall
    /\ LET r == ExtractFeatures(call.throws)
       IN  ret' = [op |-> "extract_features", raised |-> r.raised,
                   features |-> WithPitchValues(r.features, call.f0)]
    /\ UNCHANGED <<voice_model, disk, phase, call>>

NextPitch ==
    \/ ExtractFeaturesPitchCall

SpecPitch == InitPitch /\ [][NextPitch]_vars

\* ------------------------------ top features: model.py, get_top_features

\* self.feature_importance: None, or the array of weights
NoImportance == [none |-> TRUE, weights |-> <<>>]

Importance(w) == [none |-> FALSE, weights |-> w]

\* the permutations of 1..n, as sequences
Perms(n) ==
    { q \in [1..n -> 1..n] : \A i, j \in 1..n : i # j => q[i] # q[j] }

\* np.argsort(w), kind left at its default "quicksort", which is not
\* stable: any permutation that puts the weights in ascending order, the
\* stable one among them
Argsort(w) ==
    { q \in Perms(Len(w)) :
        \A i, j \in 1..Len(w) : i < j => w[q[i]] <= w[q[j]] }

\* a[-n:] for n >= 0: the last n elements, and the whole of a for n = 0,
\* where -0 is 0 and the slice is a[0:]
LastN(a, n) ==
    IF n = 0 \/ n >= Len(a) THEN a ELSE SubSeq(a, Len(a) - n + 1, Len(a))

\* a[::-1]
Reversed(a) == [i \in 1..Len(a) |-> a[Len(a) + 1 - i]]

\* get_top_features, argsort returning q: the list of
\* (index, features[index], feature_importance[index]), indices from 0
GetTopFeatures(self, features, n_top, q) ==
    IF self.feature_importance.none THEN <<>>
    ELSE LET top_indices == Reversed(LastN(q, n_top))
         IN  [i \in 1..Len(top_indices) |->
                 [idx |-> top_indices[i] - 1,
                  value |-> features[top_indices[i]],
                  importance |-> self.feature_importance.weights[top_indices[i]]]]

\* ------------------------------------ SpecTop: get_top_features as a call

\* the weightings tried; a loaded classifier holds one
Weightings ==
    {NoImportance} \cup
    { Importance(w) : w \in UNION { [1..n -> 0..MaxWeight] : n \in 1..MaxFeat } }

\* the feature vectors tried for a weighting of n weights: n values, each
\* told apart from its neighbours
FeatureVectors(n) == { [i \in 1..n |-> 10 * i + b] : b \in {0, 1} }

InitTop ==
    /\ \E fi \in Weightings :
          /\ voice_model = [NewVoiceDetectionModel EXCEPT
                               !.model = "artifact", !.is_loaded = TRUE,
                               !.loads = 1, !.feature_importance = fi]
          /\ call \in { [op |-> "get_top_features", features |-> x, n_top |-> n] :
                          x \in FeatureVectors(Len(fi.weights)), n \in 0..MaxTop }
    /\ disk = [model |-> "ok", scaler |-> "missing", importances |-> TRUE]
    /\ phase = "library"
    /\ ret = NoCall

\* voice_model.get_top_features(features, n_top)
GetTopFeaturesCall ==
    /\ call.op = "get_top_features"
    /\ ret = NoCall
    /\ \E q \in Argsort(voice_model.feature_importance.weights) :
          ret' = [op |-> "get_top_features",
                  top |-> GetTopFeatures(voice_model, call.features, call.n_top, q)]
    /\ UNCHANGED <<voice_model, disk, phase, call>>

NextTop ==
    \/ GetTopFeaturesCall

SpecTop == InitTop /\ [][NextTop]_vars

\* ------------------------------------------- explainer: app/explainer.py

\* Feature values and confidences are fixed-point here: the integer k
\* stands for k / 100, so 20 is 2000, 0.1 is 10, 0.05 is 5 and 0.9 is 90.

\* a feature vector as the explainer reads it: its length and the values
\* at the indices the rules use
FeatureArray(len, at) == [len |-> len, at |-> at]

\* the indices read by _explain_ai_voice and by _explain_human_voice, in
\* the order they are read
AiIndices == <<14, 26, 19, 34, 37>>

HumanIndices == <<14, 26, 19, 33, 36>>

\* the local each of those reads is assigned to
AiVariables ==
    <<"pitch_std", "spectral_flatness_mean", "rms_std", "tempo", "harmonic_ratio">>

HumanVariables ==
    <<"pitch_std", "spectral_flatness_mean", "rms_std", "onset_std", "autocorr_std">>

\* VoiceExplainer.FEATURE_NAMES
FEATURE_NAMES ==
    <<"MFCC-1", "MFCC-2", "MFCC-3", "MFCC-4", "MFCC-5", "MFCC-6", "MFCC-7",
      "MFCC-8", "MFCC-9", "MFCC-10", "MFCC-11", "MFCC-12", "MFCC-13",
      "Pitch Mean", "Pitch Std", "Pitch Min", "Pitch Max", "Pitch Range",
      "RMS Mean", "RMS Std", "ZCR Mean", "ZCR Std",
      "Spectral Centroid Mean", "Spectral Centroid Std",
      "Spectral Rolloff Mean", "Spectral Rolloff Std",
      "Spectral Flatness Mean", "Spectral Flatness Std",
      "Spectral Bandwidth Mean", "Spectral Bandwidth Std",
      "Spectral Contrast Mean", "Spectral Contrast Std",
      "Onset Mean", "Onset Std", "Tempo",
      "Autocorr Mean", "Autocorr Std",
      "Harmonic Ratio", "Percussive Ratio">>

\* features[i] for each i of indices raises IndexError when one of them is
\* outside the array
IndexError(features, indices) ==
    \E k \in 1..Len(indices) : indices[k] >= features.len

\* the confidence bands with >= in place of >
StrengthInclusive(confidence) ==
    IF confidence >= 90 THEN "Strong"
    ELSE IF confidence >= 70 THEN "Clear"
    ELSE "Moderate"

\* lines 101-106 and 146-151
Strength(confidence) ==
    IF confidence > 90 THEN "Strong"
    ELSE IF confidence > 70 THEN "Clear"
    ELSE "Moderate"

\* explanations.append(phrase) under its if
AppendIf(cond, phrase) == IF cond THEN <<phrase>> ELSE <<>>

\* lines 72-94: the phrases appended for an AI-generated voice
AiExplanations(f) ==
    AppendIf(f.at[14] < 2000, "unnatural pitch consistency")
    \o AppendIf(f.at[26] < 10, "minimal spectral variations")
    \o AppendIf(f.at[19] < 5, "uniform energy distribution")
    \o AppendIf(10000 < f.at[34] /\ f.at[34] < 14000, "mechanical speech rhythm")
    \o AppendIf(f.at[37] > 70, "overly smooth harmonic structure")

\* lines 117-139: the phrases appended for a human voice
HumanExplanations(f) ==
    AppendIf(f.at[14] > 3000, "natural pitch variations")
    \o AppendIf(f.at[26] > 15, "rich spectral complexity")
    \o AppendIf(f.at[19] > 8, "natural energy fluctuations")
    \o AppendIf(f.at[33] > 50, "organic speech rhythm")
    \o AppendIf(f.at[36] > 10000, "natural micro-variations")

\* the generic phrase appended whatever the list holds
WithFallbackAlways(explanations, generic) ==
    Append(explanations, generic)

\* lines 97-98 and 142-143: if not explanations: explanations.append(...)
WithFallback(explanations, generic) ==
    IF explanations = <<>> THEN <<generic>> ELSE explanations

\* explanations without the slice
FirstThreeUnsliced(explanations) ==
    explanations

\* explanations[:3]
FirstThree(explanations) ==
    IF Len(explanations) <= 3 THEN explanations ELSE SubSeq(explanations, 1, 3)

\* sep.join(parts)
RECURSIVE Join(_, _)
Join(parts, sep) ==
    IF parts = <<>> THEN ""
    ELSE IF Len(parts) = 1 THEN parts[1]
    ELSE parts[1] \o sep \o Join(Tail(parts), sep)

\* _explain_ai_voice: the string returned, or the exception raised
ExplainAiVoice(confidence, features) ==
    IF IndexError(features, AiIndices) THEN [raised |-> TRUE, explanation |-> ""]
    ELSE LET explanations ==
                 WithFallback(AiExplanations(features),
                              "synthetic voice characteristics detected")
         IN  [raised |-> FALSE,
              explanation |-> Strength(confidence) \o " indicators of AI generation: "
                              \o Join(FirstThree(explanations), ", ")]

\* _explain_human_voice
ExplainHumanVoice(confidence, features) ==
    IF IndexError(features, HumanIndices) THEN [raised |-> TRUE, explanation |-> ""]
    ELSE LET explanations ==
                 WithFallback(HumanExplanations(features),
                              "human voice characteristics detected")
         IN  [raised |-> FALSE,
              explanation |-> Strength(confidence) \o " indicators of human voice: "
                              \o Join(FirstThree(explanations), ", ")]

\* f"{confidence:.2%}" of a confidence that is a whole number of hundredths
Percent(confidence) == ToString(confidence) \o ".00%"

\* generate_explanation with the exception left to propagate
ExplanationUncaught(classification, confidence, r) ==
    r

\* the except clause of generate_explanation, lines 63-65
ExplanationCaught(classification, confidence, r) ==
    IF r.raised
    THEN [raised |-> FALSE,
          explanation |-> "Voice classified as " \o classification \o " with "
                          \o Percent(confidence) \o " confidence"]
    ELSE r

\* generate_explanation (top_features is passed on and never read)
GenerateExplanation(classification, confidence, features) ==
    ExplanationCaught(classification, confidence,
                      IF classification = "AI_GENERATED"
                      THEN ExplainAiVoice(confidence, features)
                      ELSE ExplainHumanVoice(confidence, features))

\* ------------------------------------- SpecExplain: the explainer as a call

\* the values tried for a feature with thresholds lo and hi
Around(lo, hi) == {lo - Step, lo, hi, hi + Step}

\* the values tried for the tempo: on each limit and between them
Between(lo, hi) == {lo, lo + Step, hi}

\* the values tried for a feature with the single threshold t
Near(t) == {t, t + Step}

\* arrays of 39 features, every index the rules read on and about its
\* thresholds
FullArrays ==
    { FeatureArray(39, (14 :> a) @@ (26 :> b) @@ (19 :> c) @@ (34 :> d)
                       @@ (37 :> e) @@ (33 :> g) @@ (36 :> h)) :
        a \in Around(2000, 3000), b \in Around(10, 15), c \in Around(5, 8),
        d \in Between(10000, 14000), e \in Near(70), g \in Near(50),
        h \in Near(10000) }

\* arrays too short for one of the indices read
ShortArrays ==
    { FeatureArray(n, [i \in {14, 19, 26, 33, 34, 36, 37} |-> 0]) :
        n \in {0, 14, 15, 20, 27, 34, 35, 37} }

Confidences == Around(70, 90) \cup {80}

ExplainCalls ==
    { [op |-> "generate_explanation", classification |-> c, confidence |-> k,
       features |-> f] :
        c \in {"AI_GENERATED", "HUMAN"}, k \in Confidences, f \in FullArrays }
    \cup
    { [op |-> "generate_explanation", classification |-> c, confidence |-> k,
       features |-> f] :
        c \in {"AI_GENERATED", "HUMAN", "UNKNOWN"}, k \in Confidences,
        f \in ShortArrays }

InitExplain ==
    /\ voice_model = NewVoiceDetectionModel
    /\ disk = [model |-> "missing", scaler |-> "missing", importances |-> FALSE]
    /\ phase = "library"
    /\ call \in ExplainCalls
    /\ ret = NoCall

\* explainer.generate_explanation(classification, confidence, features, top)
GenerateExplanationCall ==
    /\ call.op = "generate_explanation"
    /\ ret = NoCall
    /\ LET r == GenerateExplanation(call.classification, call.confidence,
                                    call.features)
       IN  ret' = [op |-> "generate_explanation", raised |-> r.raised,
                   explanation |-> r.explanation]
    /\ UNCHANGED <<voice_model, disk, phase, call>>

NextExplain ==
    \/ GenerateExplanationCall

SpecExplain == InitExplain /\ [][NextExplain]_vars

\* --------------------------------- endpoint: main.py, app/auth.py, schemas

\* config.API_KEY (the default of config.py:15)
API_KEY == "hackathon_demo_key_2026"

\* config.MAX_AUDIO_SIZE_MB and MAX_AUDIO_SIZE_BYTES
MAX_AUDIO_SIZE_MB == 10

MAX_AUDIO_SIZE_BYTES == MAX_AUDIO_SIZE_MB * 1024 * 1024

\* the x-api-key header of a request: absent, empty, wrong, right
ApiKeyHeaders == {"<absent>", "", "invalid_key", API_KEY}

\* APIKeyHeader(name="x-api-key", auto_error=False): the header's value,
\* None for an absent or empty header
ApiKeyHeader(h) == IF h = "<absent>" \/ h = "" THEN "None" ELSE h

\* verify_api_key: the status it raises, 200 when it returns the key
VerifyApiKey(api_key) ==
    IF api_key = "None" THEN 401
    ELSE IF api_key # API_KEY THEN 403
    ELSE 200

\* the audio_base64 strings of a JSON body: absent; "short", strict base64
\* under 100 characters; "wrapped", base64 of 100 or more characters inside
\* whitespace; "not_base64", 100 or more characters outside the alphabet;
\* "clean", strict base64 of 100 or more characters
Base64Strings == {"missing", "short", "wrapped", "not_base64", "clean"}

\* the language fields of a JSON body
LanguageFields == {"missing", "French", "Tamil"}

\* the Literal of VoiceDetectionRequest.language
SupportedLanguages == {"Tamil", "English", "Hindi", "Malayalam", "Telugu"}

\* VoiceDetectionRequest with language left a free string
ValidateRequestAnyLanguage(body) ==
    /\ body.audio_base64 = "clean"
    /\ body.language # "missing"

\* VoiceDetectionRequest: min_length=100, validate_base64
\* (b64decode(v, validate=True)) and the language Literal
ValidateRequest(body) ==
    /\ body.audio_base64 = "clean"
    /\ body.language \in SupportedLanguages

\* decode_base64_audio: strip, then b64decode(validate=True)
DecodeBase64Audio(b64) ==
    IF b64 \in {"clean", "wrapped", "short"} THEN "bytes" ELSE "ValueError"

\* _convert_to_wav: the temporary file is written inside the with block,
\* before the try whose finally unlinks it
ConvertToWav(wav) ==
    IF wav = "write_fail" THEN [raised |-> TRUE, temp_file |-> "left"]
    ELSE IF wav = "decode_fail" THEN [raised |-> TRUE, temp_file |-> "deleted"]
    ELSE [raised |-> FALSE, temp_file |-> "deleted"]

\* process_audio on a payload that decodes to n_samples samples:
\* _convert_to_wav, _normalize_audio, _ensure_mono, any exception re-raised
ProcessAudio(p) ==
    LET c == ConvertToWav(p.wav)
    IN  IF c.raised THEN c
        ELSE IF PeakRaises(p.n_samples) THEN [c EXCEPT !.raised = TRUE]
        ELSE c

\* the feature vectors extract_features returns in the requests tried:
\* every value the explainer reads low, or every one high
PipelineArrays ==
    { FeatureArray(39, [i \in {14, 19, 26, 33, 34, 36, 37} |-> v]) :
        v \in {0, 20000} }

\* what one audio payload does at each stage of the pipeline
Payloads ==
    [nbytes : {MAX_AUDIO_SIZE_BYTES, MAX_AUDIO_SIZE_BYTES + 1},
     wav : {"write_fail", "decode_fail", "ok"},
     n_samples : SampleCounts,
     extract : {"ok", "raise"},
     x : InferenceOutcomes,
     features : PipelineArrays,
     late : {"ok", "raise"}]

\* the payload of a request that carries no usable audio
NoPayload ==
    [nbytes |-> 0, wav |-> "decode_fail", n_samples |-> 0, extract |-> "raise",
     x |-> [transform |-> "raise", infer |-> "raise", proba |-> <<0, 0>>],
     features |-> FeatureArray(39, [i \in {14, 19, 26, 33, 34, 36, 37} |-> 0]),
     late |-> "raise"]

\* POST /api/v1/detect requests: any header, any body; the payload varies
\* for the requests that can reach the handler
DetectRequests ==
    { [op |-> "detect", api_key |-> h, payload |-> NoPayload,
       body |-> [json |-> FALSE, audio_base64 |-> "missing", language |-> "missing"]] :
        h \in ApiKeyHeaders }
    \cup
    { [op |-> "detect", api_key |-> h, payload |-> NoPayload,
       body |-> [json |-> TRUE, audio_base64 |-> a, language |-> l]] :
        h \in ApiKeyHeaders, a \in Base64Strings, l \in LanguageFields }
    \cup
    { [op |-> "detect", api_key |-> API_KEY, payload |-> p,
       body |-> [json |-> TRUE, audio_base64 |-> "clean", language |-> "Tamil"]] :
        p \in Payloads }

\* the stages of detect_voice, in the order of its statements
Stages ==
    <<"decode_base64_audio", "size_check", "process_audio",
      "validate_audio_duration", "extract_features", "predict",
      "get_top_features", "generate_explanation", "response">>

\* the locals classification, confidence and explanation of detect_voice
\* before they are assigned
NoResult == [classification |-> "None", confidence |-> 0, explanation |-> "None"]

\* a confidence of predict, k / PScale, in the hundredths the explainer's
\* thresholds are written in
Hundredths(confidence) == (confidence * 100) \div PScale

\* round(confidence, 4), in ten-thousandths (no confidence tried lies
\* halfway between two of them)
Round4(confidence) == (2 * 10000 * confidence + PScale) \div (2 * PScale)

\* the body of a response that carries the locals whatever the outcome
ResponseBodyAlways(exc, c) ==
    [classification |-> c.classification,
     confidenceScore |-> Round4(c.confidence),
     explanation |-> c.explanation]

\* the body of the response: VoiceDetectionResponse built from the locals
\* (lines 175-181), or the ErrorResponse of http_exception_handler, which
\* has the exception's status and detail and none of them
ResponseBody(exc, c) ==
    IF exc = "none"
    THEN [classification |-> c.classification,
          confidenceScore |-> Round4(c.confidence),
          explanation |-> c.explanation]
    ELSE [classification |-> "None", confidenceScore |-> 0, explanation |-> "None"]

\* an outcome of the try block of detect_voice after k stages, the locals
\* being c
Outcome(self, exc, status, k, tmp, c) ==
    [self |-> self, exc |-> exc, status |-> status,
     ran |-> SubSeq(Stages, 1, k), temp_file |-> tmp,
     body |-> ResponseBody(exc, c)]

\* the try block of detect_voice, lines 116-185
DetectVoiceTry(self, d, rq) ==
    LET p == rq.payload
        pa == ProcessAudio(p)
        pr == Predict(self, d, p.x)
        predicted == [classification |-> pr.classification,
                      confidence |-> pr.confidence, explanation |-> "None"]
        explained == [predicted EXCEPT !.explanation =
                         GenerateExplanation(pr.classification,
                                             Hundredths(pr.confidence),
                                             p.features).explanation]
    IN  IF DecodeBase64Audio(rq.body.audio_base64) = "ValueError"
        THEN Outcome(self, "HTTPException", 400, 1, "none", NoResult)
        ELSE IF p.nbytes > MAX_AUDIO_SIZE_BYTES
        THEN Outcome(self, "HTTPException", 400, 2, "none", NoResult)
        ELSE IF pa.raised
        THEN Outcome(self, "HTTPException", 400, 3, pa.temp_file, NoResult)
        ELSE IF ValidateAudioDuration(p.n_samples, MIN_DURATION_TENTHS,
                                      MAX_DURATION_TENTHS) = "ValueError"
        THEN Outcome(self, "HTTPException", 400, 4, pa.temp_file, NoResult)
        ELSE IF p.extract = "raise"
        THEN Outcome(self, "HTTPException", 500, 5, pa.temp_file, NoResult)
        ELSE IF pr.raised
        THEN Outcome(pr.self, "HTTPException", 500, 6, pa.temp_file, NoResult)
        ELSE IF p.late = "raise"
        THEN Outcome(pr.self, "Exception", 0, 7, pa.temp_file, predicted)
        ELSE Outcome(pr.self, "none", 200, 9, pa.temp_file, explained)

\* the except clauses of detect_voice without "except HTTPException: raise"
OuterHandlerCatchAll(o) ==
    IF o.exc # "none"
    THEN [o EXCEPT !.exc = "HTTPException", !.status = 500]
    ELSE o

\* the except clauses of detect_voice, lines 187-194
OuterHandler(o) ==
    IF o.exc = "Exception"
    THEN [o EXCEPT !.exc = "HTTPException", !.status = 500]
    ELSE o

\* detect_voice; http_exception_handler answers with exc.status_code
DetectVoice(self, d, rq) ==
    OuterHandler(DetectVoiceTry(self, d, rq))

\* a response produced before the handler is entered
Rejected(self, status, ran) ==
    [self |-> self, exc |-> "HTTPException", status |-> status, ran |-> ran,
     temp_file |-> "none", body |-> ResponseBody("HTTPException", NoResult)]

\* the route with the body validated before the dependency is called
RouteDetectValidateFirst(self, d, rq) ==
    IF ~rq.body.json
    THEN Rejected(self, 422, <<"parse_body">>)
    ELSE IF ~ValidateRequest(rq.body)
    THEN Rejected(self, 422, <<"parse_body", "validate_body">>)
    ELSE IF VerifyApiKey(ApiKeyHeader(rq.api_key)) # 200
    THEN Rejected(self, VerifyApiKey(ApiKeyHeader(rq.api_key)),
                  <<"parse_body", "validate_body", "verify_api_key">>)
    ELSE LET o == DetectVoice(self, d, rq)
         IN  [o EXCEPT !.ran = <<"parse_body", "validate_body", "verify_api_key">> \o @]

\* the route of detect_voice: the JSON body is read, Depends(verify_api_key)
\* is called, the body is validated against VoiceDetectionRequest, then the
\* handler runs
RouteDetect(self, d, rq) ==
    IF ~rq.body.json
    THEN Rejected(self, 422, <<"parse_body">>)
    ELSE IF VerifyApiKey(ApiKeyHeader(rq.api_key)) # 200
    THEN Rejected(self, VerifyApiKey(ApiKeyHeader(rq.api_key)),
                  <<"parse_body", "verify_api_key">>)
    ELSE IF ~ValidateRequest(rq.body)
    THEN Rejected(self, 422, <<"parse_body", "verify_api_key", "validate_body">>)
    ELSE LET o == DetectVoice(self, d, rq)
         IN  [o EXCEPT !.ran = <<"parse_body", "verify_api_key", "validate_body">> \o @]

\* the GET requests: the path, and whether test_ui.html is in the working
\* directory when the request is served
GetRequests ==
    { [op |-> "get", path |-> p, ui_file |-> f] :
        p \in {"/", "/api-info", "/health"}, f \in {"present", "missing"} }

\* a response to a GET request: its status, its media type and, when the
\* body is JSON, the object it carries (the empty function otherwise)
GetResponse(status, media_type, body) ==
    [op |-> "get", status |-> status, media_type |-> media_type, body |-> body]

\* serve_ui: FileResponse("test_ui.html"), which sends the file as
\* text/html and fails with a RuntimeError when the file does not exist
ServeUi(rq) ==
    IF rq.ui_file = "present" THEN GetResponse(200, "text/html", <<>>)
    ELSE GetResponse(500, "text/plain", <<>>)

\* api_info
ApiInfo ==
    GetResponse(200, "application/json",
                [message |-> "AI Voice Detection API", version |-> "1.0.0",
                 docs |-> "/docs", health |-> "/health"])

\* health_check with model_loaded left at the default of the field
HealthCheckDefault(self) ==
    GetResponse(200, "application/json",
                [status |-> "healthy", version |-> "1.0.0", model_loaded |-> TRUE])

\* health_check: HealthResponse, serialized by alias
HealthCheck(self) ==
    GetResponse(200, "application/json",
                [status |-> "healthy", version |-> "1.0.0",
                 model_loaded |-> self.is_loaded])

\* the GET routes of the application
RouteGet(self, rq) ==
    IF rq.path = "/" THEN ServeUi(rq)
    ELSE IF rq.path = "/api-info" THEN ApiInfo
    ELSE HealthCheck(self)

\* ------------------------------------------------ Spec: the service process

Init ==
    /\ voice_model = NewVoiceDetectionModel
    /\ disk \in DiskStates
    /\ phase = "starting"
    /\ call = NoCall
    /\ ret = NoCall

\* lifespan: load_model runs before the application accepts a request
Lifespan ==
    /\ phase = "starting"
    /\ voice_model' = LoadModel(voice_model, disk)
    /\ phase' = "serving"
    /\ UNCHANGED <<disk, call, ret>>

\* a client sends a request; it waits until the application serves
Arrive ==
    /\ phase \in {"starting", "serving"}
    /\ call = NoCall
    /\ call' \in DetectRequests \cup GetRequests
    /\ UNCHANGED <<voice_model, disk, phase, ret>>

\* POST /api/v1/detect is answered; the handler has no await, so it runs
\* from its first statement to its response without interleaving
HandleDetect ==
    /\ phase = "serving"
    /\ call.op = "detect"
    /\ ret = NoCall
    /\ LET o == RouteDetect(voice_model, disk, call)
       IN  /\ voice_model' = o.self
           /\ ret' = [op |-> "detect", status |-> o.status, ran |-> o.ran,
                      temp_file |-> o.temp_file,
                      classification |-> o.body.classification,
                      confidenceScore |-> o.body.confidenceScore,
                      explanation |-> o.body.explanation]
    /\ UNCHANGED <<disk, phase, call>>

\* GET /, GET /api-info or GET /health is answered
HandleGet ==
    /\ phase = "serving"
    /\ call.op = "get"
    /\ ret = NoCall
    /\ ret' = RouteGet(voice_model, call)
    /\ UNCHANGED <<voice_model, disk, phase, call>>

\* the client has its response
Respond ==
    /\ ret.op \in {"detect", "get"}
    /\ call' = NoCall
    /\ ret' = NoCall
    /\ UNCHANGED <<voice_model, disk, phase>>

Next ==
    \/ Lifespan
    \/ Arrive
    \/ HandleDetect
    \/ HandleGet
    \/ Respond

Spec == Init /\ [][Next]_vars

\* ------------- SpecTestClient: the application driven without its lifespan

\* tests/test_api.py builds TestClient(app) outside a with block, so
\* lifespan never runs: the first request finds the classifier Unloaded and
\* the first predict loads it.

\* the payloads tried: none usable, and a clip of 30 s that every stage
\* before predict accepts
TestClientPayloads ==
    {NoPayload} \cup
    { p \in Payloads :
        /\ p.nbytes = MAX_AUDIO_SIZE_BYTES /\ p.wav = "ok"
        /\ p.n_samples = 30 * SAMPLE_RATE /\ p.extract = "ok" /\ p.late = "ok" }

TestClientRequests ==
    GetRequests \cup { rq \in DetectRequests : rq.payload \in TestClientPayloads }

InitTestClient ==
    /\ voice_model = NewVoiceDetectionModel
    /\ disk \in DiskStates
    /\ phase = "testclient"
    /\ call = NoCall
    /\ ret = NoCall

\* client.get(...) or client.post(...) is called
TestClientSend ==
    /\ phase = "testclient"
    /\ call = NoCall
    /\ call' \in TestClientRequests
    /\ UNCHANGED <<voice_model, disk, phase, ret>>

\* the application answers POST /api/v1/detect
TestClientDetect ==
    /\ phase = "testclient"
    /\ call.op = "detect"
    /\ ret = NoCall
    /\ LET o == RouteDetect(voice_model, disk, call)
       IN  /\ voice_model' = o.self
           /\ ret' = [op |-> "detect", status |-> o.status, ran |-> o.ran,
                      temp_file |-> o.temp_file,
                      classification |-> o.body.classification,
                      confidenceScore |-> o.body.confidenceScore,
                      explanation |-> o.body.explanation]
    /\ UNCHANGED <<disk, phase, call>>

\* the application answers a GET request
TestClientGet ==
    /\ phase = "testclient"
    /\ call.op = "get"
    /\ ret = NoCall
    /\ ret' = RouteGet(voice_model, call)
    /\ UNCHANGED <<voice_model, disk, phase, call>>

\* the call of the client returns
TestClientReturn ==
    /\ phase = "testclient"
    /\ ret # NoCall
    /\ call' = NoCall
    /\ ret' = NoCall
    /\ UNCHANGED <<voice_model, disk, phase>>

NextTestClient ==
    \/ TestClientSend
    \/ TestClientDetect
    \/ TestClientGet
    \/ TestClientReturn

SpecTestClient == InitTestClient /\ [][NextTestClient]_vars

\* ------------- SpecConcurrent: requests in flight on a loaded classifier

\* The handler of the served application runs without interleaving (Spec).
\* Here the four operations of a request are steps that requests take in
\* any order, as they would on independent threads.

\* the artifacts tried: a model with importances or none, a scaler or none
ConcurrentDisks ==
    { d \in DiskStates :
        d.importances /\ d.model \in {"ok", "missing"}
                      /\ d.scaler \in {"ok", "missing"} }

\* what the scaler and the model do with a request's vector
ConcurrentOutcomes ==
    { x \in InferenceOutcomes :
        /\ x.transform = "ok"
        /\ x.infer = "ok" => x.proba \in {<<0, PScale>>, <<PScale, 0>>, <<1, 1>>} }

\* a request entering the pipeline at feature extraction, its locals unset
NewRequest(x, f) ==
    [pc |-> "extract_features", x |-> x, extracted |-> f,
     features |-> "None", classification |-> "None", confidence |-> 0,
     top_features |-> "None"]

\* the response of a request
ConcurrentResponse(status, l, explanation) ==
    [status |-> status, classification |-> l.classification,
     confidence |-> l.confidence, top_features |-> l.top_features,
     explanation |-> explanation]

\* what a request gets when its four operations run with nothing in between
RunAlone(self, d, l) ==
    LET pr == Predict(self, d, l.x)
        new == NewRequest(l.x, l.extracted)
        done == [new EXCEPT !.classification = pr.classification,
                          !.confidence = pr.confidence,
                          !.top_features = pr.self.feature_importance]
    IN  IF pr.raised THEN ConcurrentResponse(500, new, "None")
        ELSE ConcurrentResponse(200, done,
                 GenerateExplanation(pr.classification, Hundredths(pr.confidence),
                                     l.extracted).explanation)

InitConcurrent ==
    /\ disk \in ConcurrentDisks
    /\ voice_model = LoadModel(NewVoiceDetectionModel, disk)
    /\ phase = "serving"
    /\ call \in [1..MaxRequests ->
                    { NewRequest(x, f) : x \in ConcurrentOutcomes, f \in PipelineArrays }]
    /\ ret = [r \in 1..MaxRequests |-> NoCall]

\* feature_extractor.extract_features(audio_array) of request r
ExtractStep(r) ==
    /\ call[r].pc = "extract_features"
    /\ call' = [call EXCEPT ![r].features = call[r].extracted, ![r].pc = "predict"]
    /\ UNCHANGED <<voice_model, disk, phase, ret>>

\* voice_model.predict(features) of request r
PredictStep(r) ==
    /\ call[r].pc = "predict"
    /\ LET pr == Predict(voice_model, disk, call[r].x)
       IN  /\ voice_model' = pr.self
           /\ IF pr.raised
              THEN /\ call' = [call EXCEPT ![r].pc = "done"]
                   /\ ret' = [ret EXCEPT ![r] = ConcurrentResponse(500, call[r], "None")]
              ELSE /\ call' = [call EXCEPT ![r].classification = pr.classification,
                                           ![r].confidence = pr.confidence,
                                           ![r].pc = "get_top_features"]
                   /\ ret' = ret
    /\ UNCHANGED <<disk, phase>>

\* voice_model.get_top_features(features) of request r: it reads
\* self.feature_importance
TopFeaturesStep(r) ==
    /\ call[r].pc = "get_top_features"
    /\ call' = [call EXCEPT ![r].top_features = voice_model.feature_importance,
                            ![r].pc = "generate_explanation"]
    /\ UNCHANGED <<voice_model, disk, phase, ret>>

\* explainer.generate_explanation(...) of request r, and its response
ExplanationStep(r) ==
    /\ call[r].pc = "generate_explanation"
    /\ call' = [call EXCEPT ![r].pc = "done"]
    /\ ret' = [ret EXCEPT ![r] =
                  ConcurrentResponse(200, call[r],
                      GenerateExplanation(call[r].classification,
                                          Hundredths(call[r].confidence),
                                          call[r].features).explanation)]
    /\ UNCHANGED <<voice_model, disk, phase>>

\* the environment: the artifacts on disk are replaced or removed while the
\* service runs
DiskChangeServing ==
    /\ \E d \in ConcurrentDisks : d # disk /\ disk' = d
    /\ UNCHANGED <<voice_model, phase, call, ret>>

NextConcurrent ==
    \/ \E r \in 1..MaxRequests : ExtractStep(r)
    \/ \E r \in 1..MaxRequests : PredictStep(r)
    \/ \E r \in 1..MaxRequests : TopFeaturesStep(r)
    \/ \E r \in 1..MaxRequests : ExplanationStep(r)
    \/ DiskChangeServing

SpecConcurrent == InitConcurrent /\ [][NextConcurrent]_vars

\* ------------- SpecLazy: predict on an unloaded classifier, from threads

\* The lifespan has not run (TestClient(app) without its context manager):
\* the first predict calls load_model itself. Callers 1..MaxRequests run
\* predict on independent threads, one statement of load_model,
\* _create_dummy_model or predict at a time. Here call[t] holds thread t's
\* position, and phase holds, for each attribute of the classifier, the
\* thread whose load assigned it last (0: nobody).

\* the artifacts tried: none, or a model with importances and its scaler
LazyDisks ==
    { d \in DiskStates :
        \/ d.model = "missing" /\ d.scaler = "missing" /\ ~d.importances
        \/ d.model = "ok" /\ d.scaler = "ok" /\ d.importances }

\* a thread entering predict; retry: its load_model is in the except branch
Entering == [pc |-> "predict", retry |-> FALSE, loaded |-> FALSE]

InitLazy ==
    /\ voice_model = NewVoiceDetectionModel
    /\ disk \in LazyDisks
    /\ phase = [model |-> 0, scaler |-> 0, feature_importance |-> 0]
    /\ call = [t \in 1..MaxRequests |-> Entering]
    /\ ret = [t \in 1..MaxRequests |-> NoCall]

\* thread t moves to position pc
Goto(t, pc) == call' = [call EXCEPT ![t].pc = pc]

\* predict, lines 111-112: if not self.is_loaded
TestLoaded(t) ==
    /\ call[t].pc = "predict"
    /\ Goto(t, IF voice_model.is_loaded THEN "infer" ELSE "load_model")
    /\ UNCHANGED <<voice_model, disk, phase, ret>>

\* load_model, lines 28-34: the dummy model when no file is there,
\* self.model = joblib.load(model_path) otherwise
LoadModelFile(t) ==
    /\ call[t].pc = "load_model"
    /\ IF disk.model = "missing"
       THEN /\ Goto(t, "dummy_new")
            /\ voice_model' = [voice_model EXCEPT !.loads = @ + 1]
            /\ UNCHANGED phase
       ELSE /\ Goto(t, "load_scaler")
            /\ voice_model' = [voice_model EXCEPT !.loads = @ + 1,
                                                  !.model = "artifact"]
            /\ phase' = [phase EXCEPT !.model = t]
    /\ UNCHANGED <<disk, ret>>

\* load_model, lines 38-39
LoadScalerFile(t) ==
    /\ call[t].pc = "load_scaler"
    /\ Goto(t, "load_importance")
    /\ IF disk.scaler = "ok"
       THEN /\ voice_model' = [voice_model EXCEPT !.scaler = "artifact"]
            /\ phase' = [phase EXCEPT !.scaler = t]
       ELSE UNCHANGED <<voice_model, phase>>
    /\ UNCHANGED <<disk, ret>>

\* load_model, lines 43-44
LoadImportance(t) ==
    /\ call[t].pc = "load_importance"
    /\ Goto(t, "load_done")
    /\ IF disk.importances
       THEN /\ voice_model' = [voice_model EXCEPT !.feature_importance = "artifact"]
            /\ phase' = [phase EXCEPT !.feature_importance = t]
       ELSE UNCHANGED <<voice_model, phase>>
    /\ UNCHANGED <<disk, ret>>

\* load_model, line 46, and _create_dummy_model, line 95
SetLoaded(t) ==
    /\ call[t].pc \in {"load_done", "dummy_done"}
    /\ call' = [call EXCEPT ![t].pc = "infer", ![t].loaded = TRUE]
    /\ voice_model' = [voice_model EXCEPT !.is_loaded = TRUE]
    /\ UNCHANGED <<disk, phase, ret>>

\* _create_dummy_model, line 56: self.model is a forest not yet fitted
DummyNew(t) ==
    /\ call[t].pc = "dummy_new"
    /\ Goto(t, "dummy_fit")
    /\ voice_model' = [voice_model EXCEPT !.model = "unfitted"]
    /\ phase' = [phase EXCEPT !.model = t]
    /\ UNCHANGED <<disk, ret>>

\* _create_dummy_model, line 87: self.model.fit(X, y) fits the object
\* self.model refers to now
DummyFit(t) ==
    /\ call[t].pc = "dummy_fit"
    /\ Goto(t, "dummy_scaler")
    /\ voice_model' = [voice_model EXCEPT !.model = "dummy"]
    /\ UNCHANGED <<disk, phase, ret>>

\* _create_dummy_model, line 90
DummyScaler(t) ==
    /\ call[t].pc = "dummy_scaler"
    /\ Goto(t, "dummy_importance")
    /\ voice_model' = [voice_model EXCEPT !.scaler = "None"]
    /\ phase' = [phase EXCEPT !.scaler = t]
    /\ UNCHANGED <<disk, ret>>

\* _create_dummy_model, line 93: self.model.feature_importances_ of a
\* fitted forest
DummyImportance(t) ==
    /\ call[t].pc = "dummy_importance"
    /\ voice_model.model # "unfitted"
    /\ Goto(t, "dummy_done")
    /\ voice_model' = [voice_model EXCEPT !.feature_importance = "dummy"]
    /\ phase' = [phase EXCEPT !.feature_importance = t]
    /\ UNCHANGED <<disk, ret>>

\* line 93 on a forest not fitted: the attribute raises; load_model's
\* except branch (lines 48-51) calls _create_dummy_model once more, and an
\* exception there leaves load_model and predict
DummyImportanceRaises(t) ==
    /\ call[t].pc = "dummy_importance"
    /\ voice_model.model = "unfitted"
    /\ IF call[t].retry
       THEN /\ call' = [call EXCEPT ![t].pc = "done"]
            /\ ret' = [ret EXCEPT ![t] =
                          [op |-> "predict", raised |-> TRUE, inferred |-> FALSE]]
       ELSE /\ call' = [call EXCEPT ![t].pc = "dummy_new", ![t].retry = TRUE]
            /\ UNCHANGED ret
    /\ UNCHANGED <<voice_model, disk, phase>>

\* predict, lines 119-123: the scaler if there is one, then predict_proba
\* on self.model, which raises on a forest not fitted; completed: the
\* threads whose load has set is_loaded
Infer(t) ==
    /\ call[t].pc = "infer"
    /\ call' = [call EXCEPT ![t].pc = "done"]
    /\ ret' = [ret EXCEPT ![t] =
                  [op |-> "predict", inferred |-> TRUE,
                   raised |-> (voice_model.model = "unfitted"),
                   model |-> voice_model.model,
                   by |-> phase,
                   completed |-> { u \in 1..MaxRequests : call[u].loaded }]]
    /\ UNCHANGED <<voice_model, disk, phase>>

NextLazy ==
    \/ \E t \in 1..MaxRequests : TestLoaded(t)
    \/ \E t \in 1..MaxRequests : LoadModelFile(t)
    \/ \E t \in 1..MaxRequests : LoadScalerFile(t)
    \/ \E t \in 1..MaxRequests : LoadImportance(t)
    \/ \E t \in 1..MaxRequests : SetLoaded(t)
    \/ \E t \in 1..MaxRequests : DummyNew(t)
    \/ \E t \in 1..MaxRequests : DummyFit(t)
    \/ \E t \in 1..MaxRequests : DummyScaler(t)
    \/ \E t \in 1..MaxRequests : DummyImportance(t)
    \/ \E t \in 1..MaxRequests : DummyImportanceRaises(t)
    \/ \E t \in 1..MaxRequests : Infer(t)

SpecLazy == InitLazy /\ [][NextLazy]_vars

\* ------------------------------------------------------------------ claims

\* C1: whenever predict returns, the label is AI_GENERATED if and only if
\* probabilities[1] (AI) is strictly greater than probabilities[0] (human);
\* on a tie and whenever the AI probability is smaller the label is HUMAN.
C1_DecisionRule ==
    (ret.op = "predict" /\ ~ret.raised) =>
        /\ (ret.classification = "AI_GENERATED")
               <=> (ret.probabilities[2] > ret.probabilities[1])
        /\ (ret.probabilities[2] <= ret.probabilities[1])
               => (ret.classification = "HUMAN")

\* a tie of nonzero probabilities, answered HUMAN
C1_Witness ==
    /\ ret.op = "predict" /\ ~ret.raised
    /\ ret.probabilities[1] = ret.probabilities[2]
    /\ ret.probabilities[1] > 0
    /\ ret.classification = "HUMAN"

\* C2: whenever predict returns, the label is AI_GENERATED or HUMAN and the
\* confidence is the probability of that label; when the two probabilities
\* sum to 1 the confidence is their maximum and is at least 0.5; it always
\* lies in [0, 1].
C2_LabelAndConfidence ==
    (ret.op = "predict" /\ ~ret.raised) =>
        LET p == ret.probabilities
            max == IF p[1] >= p[2] THEN p[1] ELSE p[2]
        IN  /\ ret.classification \in {"AI_GENERATED", "HUMAN"}
            /\ ret.classification = "AI_GENERATED" => ret.confidence = p[2]
            /\ ret.classification = "HUMAN" => ret.confidence = p[1]
            /\ (p[1] + p[2] = PScale) =>
                   (ret.confidence = max /\ 2 * ret.confidence >= PScale)
            /\ 0 <= ret.confidence /\ ret.confidence <= PScale

\* probabilities that sum to 1, AI the larger, answered AI_GENERATED
C2_Witness ==
    /\ ret.op = "predict" /\ ~ret.raised
    /\ ret.probabilities[1] + ret.probabilities[2] = PScale
    /\ ret.probabilities[2] > ret.probabilities[1]
    /\ ret.classification = "AI_GENERATED"
    /\ ret.confidence = ret.probabilities[2]

\* the artifact is unavailable: the model file is missing, or loading the
\* model or the scaler throws
Unavailable(d) ==
    \/ d.model = "missing"
    \/ d.model = "corrupt"
    \/ d.model = "ok" /\ d.scaler = "corrupt"

\* C6: when the artifact is unavailable load_model returns in the
\* Bootstrapped state (is_loaded, the placeholder model, no scaler, the
\* placeholder's importances), and once load_model has been called
\* is_loaded is true in every later state.
C6_BootstrapOnUnavailable ==
    /\ (call.op = "load_model" /\ Unavailable(call.disk)) =>
           /\ voice_model.is_loaded
           /\ voice_model.model = "dummy"
           /\ voice_model.scaler = "None"
           /\ voice_model.feature_importance = "dummy"
    /\ voice_model.loads > 0 => voice_model.is_loaded

\* load_model on a Loaded state that holds a scaler, the scaler file now
\* corrupt: the state is Bootstrapped
C6_Witness ==
    /\ call.op = "load_model"
    /\ call.before.is_loaded /\ call.before.scaler = "artifact"
    /\ call.disk.model = "ok" /\ call.disk.scaler = "corrupt"
    /\ voice_model.model = "dummy" /\ voice_model.scaler = "None"

AllZero(a) == \A i \in 1..Len(a) : a[i].num = 0

\* C8 as stated: for every waveform _normalize_audio returns a waveform;
\* with a nonzero sample in the input the largest magnitude returned is
\* exactly 1 and every sample is the input sample over the input peak, so
\* within [-1, 1]; with every sample zero the input is returned unchanged.
C8_PeakNormalization ==
    (ret.op = "_normalize_audio") =>
        /\ ~ret.raised
        /\ ~AllZero(call.audio) =>
              /\ \E i \in 1..Len(ret.audio) : RatEq(RatAbs(ret.audio[i]), Rat(1, 1))
              /\ \A i \in 1..Len(ret.audio) :
                    /\ ~RatLess(Rat(1, 1), RatAbs(ret.audio[i]))
                    /\ RatEq(ret.audio[i], RatDiv(call.audio[i], Peak(call.audio)))
        /\ AllZero(call.audio) => ret.audio = call.audio

\* C9: validate_audio_duration returns True exactly when
\* min <= n / sample_rate <= max, both limits accepted, and raises
\* ValueError otherwise, below the minimum and above the maximum alike.
C9_DurationBounds ==
    (ret.op = "validate_audio_duration") =>
        LET tooShort == call.n * 10 < call.min * SAMPLE_RATE
            tooLong == call.n * 10 > call.max * SAMPLE_RATE
        IN  /\ ret.result \in {"True", "ValueError"}
            /\ (ret.result = "True") <=> (~tooShort /\ ~tooLong)
            /\ (tooShort \/ tooLong) => ret.result = "ValueError"
            /\ ( /\ call.min = MIN_DURATION_TENTHS
                 /\ call.max = MAX_DURATION_TENTHS
                 /\ call.n \in {(3 * SAMPLE_RATE) \div 10, 45 * SAMPLE_RATE} )
                  => ret.result = "ValueError"

\* 30 s exactly, under the default limits, is accepted
C9_Witness ==
    /\ ret.op = "validate_audio_duration"
    /\ call.min = MIN_DURATION_TENTHS /\ call.max = MAX_DURATION_TENTHS
    /\ call.n = 30 * SAMPLE_RATE
    /\ ret.result = "True"

\* the stages of the handler that a response went through
HandlerRan == SubSeq(ret.ran, 4, Len(ret.ran))

\* position of the key check in the stages of a response, 0 if absent
KeyCheckAt ==
    IF \E i \in 1..Len(ret.ran) : ret.ran[i] = "verify_api_key"
    THEN CHOOSE i \in 1..Len(ret.ran) : ret.ran[i] = "verify_api_key"
    ELSE 0

\* the key check comes before schema validation and before every pipeline
\* stage, and a 401 or 403 response ran neither
KeyCheckedFirst ==
    /\ \A i \in 1..Len(ret.ran) :
          ret.ran[i] \notin {"parse_body", "verify_api_key"}
              => (KeyCheckAt > 0 /\ KeyCheckAt < i)
    /\ ret.status \in {401, 403} => ret.ran = <<"parse_body", "verify_api_key">>

\* C3 as stated: whatever the body, no x-api-key header gives 401, a header
\* that differs from the configured key gives 403, the configured key never
\* gives 401 or 403, and the key is checked before the body is validated
\* and before any pipeline stage.
C3_AsStated ==
    (ret.op = "detect") =>
        /\ call.api_key = "<absent>" => ret.status = 401
        /\ (call.api_key # "<absent>" /\ call.api_key # API_KEY) => ret.status = 403
        /\ call.api_key = API_KEY => ret.status \notin {401, 403}
        /\ KeyCheckedFirst

\* C3 amended: for a body that is parseable JSON, valid against the schema
\* or not, an absent or empty x-api-key gives 401, a non-empty key other
\* than the configured one gives 403, the configured key never gives 401 or
\* 403, and the key is checked before schema validation and before any
\* pipeline stage; a body that is not parseable JSON gives 422 before the
\* key is checked.
C3_KeyCheck ==
    (ret.op = "detect") =>
        /\ ~call.body.json => (ret.status = 422 /\ ret.ran = <<"parse_body">>)
        /\ call.body.json =>
              /\ call.api_key \in {"<absent>", ""} => ret.status = 401
              /\ call.api_key \notin {"<absent>", "", API_KEY} => ret.status = 403
              /\ call.api_key = API_KEY => ret.status \notin {401, 403}
        /\ KeyCheckedFirst

\* no key and a JSON body that fails the schema (audio_base64 too short):
\* 401, nothing validated
C3_Witness ==
    /\ ret.op = "detect"
    /\ call.api_key = "<absent>"
    /\ call.body.json /\ call.body.audio_base64 = "short"
    /\ ret.status = 401
    /\ ret.ran = <<"parse_body", "verify_api_key">>

\* the stages of detect_voice that fail on the request in flight, each
\* taken alone, by position in Stages
FailingStages ==
    LET p == call.payload
    IN  { k \in 1..Len(Stages) :
            \/ k = 1 /\ call.body.audio_base64 \notin {"clean", "wrapped", "short"}
            \/ k = 2 /\ p.nbytes > MAX_AUDIO_SIZE_BYTES
            \/ k = 3 /\ (p.wav # "ok" \/ p.n_samples = 0)
            \/ k = 4 /\ ( \/ p.n_samples * 10 < MIN_DURATION_TENTHS * SAMPLE_RATE
                          \/ p.n_samples * 10 > MAX_DURATION_TENTHS * SAMPLE_RATE )
            \/ k = 5 /\ p.extract = "raise"
            \/ k = 6 /\ ( \/ p.x.infer = "raise"
                          \/ voice_model.scaler # "None" /\ p.x.transform = "raise" )
            \/ k = 7 /\ p.late = "raise" }

FirstFailing == CHOOSE k \in FailingStages : \A j \in FailingStages : k <= j

\* C4: once detect_voice is entered, the first failing stage alone decides
\* the status and is the last stage run, each stage running at most once:
\* 400 for base64 decoding, size, audio processing and duration, 500 for
\* feature extraction, prediction and any other exception; 200 with every
\* stage run when none fails.
C4_FirstFailureDecides ==
    (ret.op = "detect" /\ Len(ret.ran) > 3) =>
        IF FailingStages = {}
        THEN ret.status = 200 /\ HandlerRan = Stages
        ELSE /\ HandlerRan = SubSeq(Stages, 1, FirstFailing)
             /\ FirstFailing <= 4 => ret.status = 400
             /\ FirstFailing >= 5 => ret.status = 500

\* audio that cannot be decoded and whose features could not be extracted
\* either: 400, from process_audio, the last stage run
C4_Witness ==
    /\ ret.op = "detect"
    /\ call.payload.wav = "decode_fail" /\ call.payload.extract = "raise"
    /\ call.payload.nbytes <= MAX_AUDIO_SIZE_BYTES
    /\ ret.status = 400
    /\ ret.ran[Len(ret.ran)] = "process_audio"

\* C5: load_model runs exactly once, in lifespan, before any detect request
\* is answered; the classifier a request finds and leaves is the Loaded or
\* Bootstrapped state that load produced, never loaded or replaced again.
C5_LoadedOnceBeforeServing ==
    /\ voice_model.loads <= 1
    /\ phase = "starting" => (voice_model = NewVoiceDetectionModel /\ ret = NoCall)
    /\ phase = "serving" =>
          /\ voice_model.loads = 1
          /\ voice_model.is_loaded
          /\ voice_model.model \in {"artifact", "dummy"}
          /\ voice_model = LoadModel(NewVoiceDetectionModel, disk)

\* a request answered 200, its prediction made on the classifier loaded at
\* startup
C5_Witness ==
    /\ ret.op = "detect" /\ ret.status = 200
    /\ voice_model.loads = 1 /\ voice_model.is_loaded

\* C7: once _convert_to_wav has returned or raised, the temporary file it
\* created no longer exists.
C7_TempFileRemoved ==
    (ret.op = "detect" /\ \E i \in 1..Len(ret.ran) : ret.ran[i] = "process_audio")
        => ret.temp_file = "deleted"

\* the family at Python index i of the returned vector
FamilyAt(i) == ret.features[i + 1].family

\* C10: every vector extract_features returns has exactly 39 elements, the
\* 13 cepstral, 5 pitch, 4 energy, 10 spectral and 7 prosody values in that
\* order, at indices [0:13], [13:18], [18:22], [22:32] and [32:39], each
\* family in the order of its own list.
C10_VectorLayout ==
    (ret.op = "extract_features" /\ ~ret.raised) =>
        /\ Len(ret.features) = 39
        /\ \A i \in 0..12 : FamilyAt(i) = "mfcc" /\ ret.features[i + 1].k = i
        /\ \A i \in 13..17 : FamilyAt(i) = "pitch" /\ ret.features[i + 1].k = i - 13
        /\ \A i \in 18..21 : FamilyAt(i) = "energy" /\ ret.features[i + 1].k = i - 18
        /\ \A i \in 22..31 : FamilyAt(i) = "spectral" /\ ret.features[i + 1].k = i - 22
        /\ \A i \in 32..38 : FamilyAt(i) = "prosody" /\ ret.features[i + 1].k = i - 32

\* a call in which no transform throws returns a vector
C10_Witness ==
    /\ ret.op = "extract_features" /\ ~ret.raised
    /\ call.throws = {}
    /\ Len(ret.features) = 39

\* the frames of the contour in flight that pyin marked voiced
VoicedFrames == { i \in 1..Len(call.f0) : ~call.f0[i].nan }

\* sum of g[i] over the frames in S
RECURSIVE SumOver(_, _)
SumOver(S, g) ==
    IF S = {} THEN 0
    ELSE LET i == CHOOSE j \in S : TRUE IN g[i] + SumOver(S \ {i}, g)

\* the value at Python index 13 + k of the returned vector
PitchAt(k) == ret.features[13 + k + 1].name

\* C11: extract_features raises exactly when a transform throws and then
\* returns no vector; when it returns and no frame is voiced the values at
\* indices 13..17 are all 0; when a frame is voiced they are the mean, the
\* standard deviation, the minimum, the maximum and maximum - minimum of the
\* estimates of the voiced frames alone.
C11_PitchSubVector ==
    (ret.op = "extract_features") =>
        LET n == Cardinality(VoicedFrames)
            F == [i \in 1..Len(call.f0) |-> call.f0[i].f0]
            S == SumOver(VoicedFrames, F)
            Dev2 == [i \in 1..Len(call.f0) |-> (n * F[i] - S) * (n * F[i] - S)]
        IN  /\ ret.raised <=> (call.throws # {})
            /\ ret.raised => ret.features = <<>>
            /\ (~ret.raised /\ n = 0) =>
                  /\ \A k \in {0, 2, 3, 4} : RatEq(PitchAt(k), Rat(0, 1))
                  /\ RatEq(PitchAt(1).sqrt_of, Rat(0, 1))
            /\ (~ret.raised /\ n > 0) =>
                  /\ RatEq(PitchAt(0), Rat(S, n))
                  /\ RatEq(PitchAt(1).sqrt_of, Rat(SumOver(VoicedFrames, Dev2), n * n * n))
                  /\ \E i \in VoicedFrames : RatEq(PitchAt(2), Rat(F[i], 1))
                  /\ \A i \in VoicedFrames : ~RatLess(Rat(F[i], 1), PitchAt(2))
                  /\ \E i \in VoicedFrames : RatEq(PitchAt(3), Rat(F[i], 1))
                  /\ \A i \in VoicedFrames : ~RatLess(PitchAt(3), Rat(F[i], 1))
                  /\ RatEq(PitchAt(4), Rat(PitchAt(3).num - PitchAt(2).num, 1))

\* a contour of unvoiced frames only: the call returns, indices 13..17 zero
C11_Witness ==
    /\ ret.op = "extract_features" /\ ~ret.raised
    /\ Len(call.f0) > 0 /\ VoicedFrames = {}
    /\ \A k \in {0, 2, 3, 4} : PitchAt(k) = Rat(0, 1)
    /\ PitchAt(1) = Sqrt(Rat(0, 1))

\* C12 as stated: get_top_features returns the n_top indices (all of them
\* when there are fewer) of highest importance, in descending order of
\* importance, equal importances by lower index first, each with the input
\* vector's value and the weight at that index.
C12_TopFeatures ==
    (ret.op = "get_top_features" /\ ~voice_model.feature_importance.none) =>
        LET w == voice_model.feature_importance.weights
            top == ret.top
            n == IF call.n_top < Len(w) THEN call.n_top ELSE Len(w)
        IN  /\ Len(top) = n
            /\ \A i \in 1..n :
                  /\ top[i].idx \in 0..(Len(w) - 1)
                  /\ top[i].value = call.features[top[i].idx + 1]
                  /\ top[i].importance = w[top[i].idx + 1]
            /\ \A i, j \in 1..n :
                  i < j => ( \/ top[i].importance > top[j].importance
                            \/ /\ top[i].importance = top[j].importance
                               /\ top[i].idx < top[j].idx )
            /\ \A k \in 1..Len(w) :
                  (\A i \in 1..n : top[i].idx # k - 1)
                      => \A i \in 1..n : w[k] <= top[i].importance

\* the rule tables of the explainer, in their fixed order
AiRuleTable ==
    <<[i |-> 14, kind |-> "below", lo |-> 2000, hi |-> 2000,
       phrase |-> "unnatural pitch consistency"],
      [i |-> 26, kind |-> "below", lo |-> 10, hi |-> 10,
       phrase |-> "minimal spectral variations"],
      [i |-> 19, kind |-> "below", lo |-> 5, hi |-> 5,
       phrase |-> "uniform energy distribution"],
      [i |-> 34, kind |-> "between", lo |-> 10000, hi |-> 14000,
       phrase |-> "mechanical speech rhythm"],
      [i |-> 37, kind |-> "above", lo |-> 70, hi |-> 70,
       phrase |-> "overly smooth harmonic structure"]>>

HumanRuleTable ==
    <<[i |-> 14, kind |-> "above", lo |-> 3000, hi |-> 3000,
       phrase |-> "natural pitch variations"],
      [i |-> 26, kind |-> "above", lo |-> 15, hi |-> 15,
       phrase |-> "rich spectral complexity"],
      [i |-> 19, kind |-> "above", lo |-> 8, hi |-> 8,
       phrase |-> "natural energy fluctuations"],
      [i |-> 33, kind |-> "above", lo |-> 50, hi |-> 50,
       phrase |-> "organic speech rhythm"],
      [i |-> 36, kind |-> "above", lo |-> 10000, hi |-> 10000,
       phrase |-> "natural micro-variations"]>>

\* a rule matches the value v; a value on a threshold matches nothing
RuleMatches(rule, v) ==
    \/ rule.kind = "below" /\ v < rule.lo
    \/ rule.kind = "above" /\ v > rule.hi
    \/ rule.kind = "between" /\ rule.lo < v /\ v < rule.hi

\* the table, the generic phrase and the label phrase of the call in flight
CallTable ==
    IF call.classification = "AI_GENERATED" THEN AiRuleTable ELSE HumanRuleTable

CallGeneric ==
    IF call.classification = "AI_GENERATED"
    THEN "synthetic voice characteristics detected"
    ELSE "human voice characteristics detected"

CallLabelPhrase ==
    IF call.classification = "AI_GENERATED" THEN "AI generation" ELSE "human voice"

\* the rules of the call's table that match its feature vector, in order
MatchingRules ==
    SelectSeq(CallTable, LAMBDA rule : RuleMatches(rule, call.features.at[rule.i]))

\* the phrases of the first three of them, or of all when fewer
ExpectedPhrases ==
    [k \in 1..(IF Len(MatchingRules) < 3 THEN Len(MatchingRules) ELSE 3) |->
        MatchingRules[k].phrase]

\* where the two-character separator sep occurs in s
CutPoints(s, sep) == { i \in 1..(Len(s) - 1) : SubSeq(s, i, i + 1) = sep }

\* the pieces of s from start on, cut at the points in cuts
RECURSIVE SplitAt(_, _, _)
SplitAt(s, cuts, start) ==
    IF cuts = {} THEN <<SubSeq(s, start, Len(s))>>
    ELSE LET i == CHOOSE c \in cuts : \A d \in cuts : c <= d
         IN  <<SubSeq(s, start, i - 1)>> \o SplitAt(s, cuts \ {i}, i + 2)

\* the pieces of s between occurrences of sep
Split(s, sep) == SplitAt(s, CutPoints(s, sep), 1)

\* the explanation returned, cut at ": ": what precedes the phrases, and
\* the phrases
ExplanationParts == Split(ret.explanation, ": ")

\* the phrases of the explanation: what follows ": ", cut at ", "
PhrasesOf(parts) == Split(parts[2], ", ")

\* the call in flight went through a rule table: the label is one of the
\* two and the vector has its 39 elements
RulesEvaluated ==
    /\ ret.op = "generate_explanation"
    /\ call.classification \in {"AI_GENERATED", "HUMAN"}
    /\ call.features.len = 39

\* C13: the phrases of the explanation are the phrases of the first three
\* (or fewer) rules of the label's table that match the vector, in the
\* table's order; a value on a threshold matches no rule.
C13_RulePhrases ==
    (RulesEvaluated /\ MatchingRules # <<>>) =>
        LET parts == ExplanationParts
        IN  /\ Len(parts) = 2
            /\ PhrasesOf(parts) = ExpectedPhrases

\* AI_GENERATED with four rules matching and pitch std exactly 20: three
\* phrases, from the second, third and fourth rule
C13_Witness ==
    /\ RulesEvaluated /\ call.classification = "AI_GENERATED"
    /\ call.features.at[14] = 2000
    /\ Len(MatchingRules) = 4
    /\ PhrasesOf(ExplanationParts) = <<"minimal spectral variations",
                                     "uniform energy distribution",
                                     "mechanical speech rhythm">>

\* C14: the explanation is never empty; when a rule table was evaluated,
\* the generic phrase of the label is among the phrases exactly when no
\* rule of the table matches, and then it is the only phrase.
C14_GenericFallback ==
    /\ ret.op = "generate_explanation" => ret.explanation # ""
    /\ RulesEvaluated =>
          LET phrases == PhrasesOf(ExplanationParts)
              generic == \E k \in 1..Len(phrases) : phrases[k] = CallGeneric
          IN  /\ generic <=> (MatchingRules = <<>>)
              /\ generic => phrases = <<CallGeneric>>

\* HUMAN with every value on its threshold: the generic phrase alone
C14_Witness ==
    /\ RulesEvaluated /\ call.classification = "HUMAN"
    /\ call.features.at[14] = 3000 /\ call.features.at[26] = 15
    /\ call.features.at[19] = 8 /\ call.features.at[33] = 50
    /\ call.features.at[36] = 10000
    /\ PhrasesOf(ExplanationParts) = <<"human voice characteristics detected">>

\* C15: the explanation is "{Strength} indicators of {label-phrase}: "
\* followed by the phrases joined by ", ", Strength being Strong exactly
\* when confidence > 0.9, Clear exactly when 0.7 < confidence <= 0.9 and
\* Moderate otherwise.
C15_StrengthBands ==
    RulesEvaluated =>
        LET strength == IF call.confidence > 90 THEN "Strong"
                        ELSE IF call.confidence > 70 /\ call.confidence <= 90
                        THEN "Clear"
                        ELSE "Moderate"
            parts == ExplanationParts
        IN  /\ Len(parts) = 2
            /\ parts[1] = strength \o " indicators of " \o CallLabelPhrase
            /\ parts[2] # ""
            /\ ret.explanation = parts[1] \o ": " \o Join(PhrasesOf(parts), ", ")

\* confidence exactly 0.9: Clear
C15_Witness ==
    /\ RulesEvaluated /\ call.confidence = 90
    /\ ExplanationParts[1] = "Clear indicators of " \o CallLabelPhrase

\* the branch taken for the call's label reads an index outside the vector
RuleEvaluationRaises ==
    IF call.classification = "AI_GENERATED"
    THEN call.features.len <= 37
    ELSE call.features.len <= 36

\* C16: generate_explanation never raises; when evaluating the rules
\* raises, it returns the sentence made of the label and the confidence
\* alone.
C16_NeverRaises ==
    (ret.op = "generate_explanation") =>
        /\ ~ret.raised
        /\ RuleEvaluationRaises =>
              ret.explanation = "Voice classified as " \o call.classification
                                \o " with " \o ToString(call.confidence)
                                \o ".00% confidence"

\* a vector of 37 elements and the label AI_GENERATED: index 37 is outside
C16_Witness ==
    /\ ret.op = "generate_explanation" /\ ~ret.raised
    /\ call.classification = "AI_GENERATED" /\ call.features.len = 37
    /\ call.confidence = 90
    /\ ret.explanation = "Voice classified as AI_GENERATED with 90.00% confidence"

\* the stages of a request in the order the claim gives them, after the
\* three steps of the route and before the response is built
PipelineOrder ==
    <<"parse_body", "verify_api_key", "validate_body",
      "decode_base64_audio", "size_check", "process_audio",
      "validate_audio_duration", "extract_features", "predict",
      "get_top_features", "generate_explanation", "response">>

\* C17: a detect request is answered either 200 with the label and the
\* confidence predict returned for this request's features and the
\* explanation generated from them, or an error status with no label, no
\* confidence and no explanation; the stages run are an initial part of
\* the fixed order, all of it on success, and on an error inside the
\* handler the last stage run is the first one that fails.
C17_AllOrNothing ==
    (ret.op = "detect") =>
        LET c == Classify(call.payload.x.proba)
            n == Len(ret.ran)
        IN  /\ ret.status \in {200, 400, 401, 403, 422, 500}
            /\ n <= Len(PipelineOrder) /\ ret.ran = SubSeq(PipelineOrder, 1, n)
            /\ ret.status = 200 =>
                  /\ ret.ran = PipelineOrder
                  /\ FailingStages = {}
                  /\ ret.classification = c.classification
                  /\ ret.confidenceScore = Round4(c.confidence)
                  /\ ret.explanation =
                        GenerateExplanation(c.classification, Hundredths(c.confidence),
                                            call.payload.features).explanation
            /\ ret.status # 200 =>
                  /\ ret.classification = "None"
                  /\ ret.confidenceScore = 0
                  /\ ret.explanation = "None"
                  /\ n < Len(PipelineOrder)
                  /\ n > 3 => /\ (n - 3) \in FailingStages
                              /\ \A k \in FailingStages : k >= n - 3

\* prediction succeeded and the ranking of top features raised: 500, no
\* label in the response, nothing run after the ranking
C17_Witness ==
    /\ ret.op = "detect" /\ ret.status = 500
    /\ call.payload.x.infer = "ok" /\ call.payload.late = "raise"
    /\ ret.ran[Len(ret.ran)] = "get_top_features"
    /\ ret.classification = "None" /\ ret.explanation = "None"

\* the fields of the classifier the claim names
ClassifierState(self) ==
    <<self.model, self.scaler, self.feature_importance, self.is_loaded>>

\* C18: with the classifier loaded, no step of any request changes the
\* model, the scaler, the importance weighting or is_loaded, and whatever
\* the order in which the steps of concurrent requests are taken, the
\* response of each request is the one it gets when run alone.
C18_ReadOnlyWhenLoaded ==
    /\ [](\A r \in 1..MaxRequests :
             ret[r] # NoCall => ret[r] = RunAlone(voice_model, disk, call[r]))
    /\ [][ClassifierState(voice_model') = ClassifierState(voice_model)]_vars

\* request 1 answered AI_GENERATED while request 2, which will be answered
\* HUMAN, is between its prediction and its explanation, the artifacts on
\* disk no longer those the classifier was loaded from
C18_Witness ==
    /\ ret[1] # NoCall /\ ret[1].status = 200
    /\ ret[1].classification = "AI_GENERATED"
    /\ call[2].pc = "generate_explanation" /\ call[2].classification = "HUMAN"
    /\ voice_model # LoadModel(NewVoiceDetectionModel, disk)

\* C19: a request with the configured key and a JSON body is answered 422,
\* the handler not entered, whenever its language is missing or not one of
\* Tamil, English, Hindi, Malayalam, Telugu, or its audio_base64 is missing
\* or is not strictly valid base64.
C19_SchemaRejects ==
    ( /\ ret.op = "detect" /\ call.api_key = API_KEY /\ call.body.json
      /\ \/ call.body.language \notin {"Tamil", "English", "Hindi", "Malayalam", "Telugu"}
         \/ call.body.audio_base64 \in {"missing", "not_base64", "wrapped"} )
        => /\ ret.status = 422
           /\ ret.ran = <<"parse_body", "verify_api_key", "validate_body">>

\* the configured key, well-formed audio and the language French: 422
C19_Witness ==
    /\ ret.op = "detect" /\ call.api_key = API_KEY
    /\ call.body.json /\ call.body.audio_base64 = "clean"
    /\ call.body.language = "French"
    /\ ret.status = 422
    /\ ret.ran = <<"parse_body", "verify_api_key", "validate_body">>

\* C20 as stated: GET / is answered 200 with a JSON object that has the
\* keys "message" and "version".
C20_RootJson ==
    (ret.op = "get" /\ call.path = "/") =>
        /\ ret.status = 200
        /\ ret.media_type = "application/json"
        /\ {"message", "version"} \subseteq DOMAIN ret.body

\* C21: GET /health is answered 200 with status "healthy", a version and
\* model_loaded, whatever the state of the classifier (Unloaded, Loaded,
\* Bootstrapped), the request carrying no API key; model_loaded is the
\* classifier's is_loaded flag.
C21_HealthAlways ==
    (ret.op = "get" /\ call.path = "/health") =>
        /\ ret.status = 200
        /\ ret.media_type = "application/json"
        /\ {"status", "version", "model_loaded"} \subseteq DOMAIN ret.body
        /\ ret.body.status = "healthy"
        /\ ret.body.model_loaded = voice_model.is_loaded

\* GET /health on the Unloaded classifier: 200, model_loaded false
C21_Witness ==
    /\ ret.op = "get" /\ call.path = "/health"
    /\ voice_model = NewVoiceDetectionModel
    /\ ret.status = 200 /\ ret.body.model_loaded = FALSE

\* the file in flight has a nonzero sample in some channel
SomeNonzeroSample ==
    \E i \in 1..Len(call.file) : \E c \in 1..Len(call.file[i]) :
        call.file[i][c].num # 0

\* the per-sample average across the channels of the file in flight
Downmix ==
    [i \in 1..Len(call.file) |->
        Rat(SumNum(call.file[i]), MaxAmp * Len(call.file[i]))]

\* the largest magnitude returned is exactly 1
ReturnedPeakIsOne ==
    /\ \E i \in 1..Len(ret.audio) : RatEq(RatAbs(ret.audio[i]), Rat(1, 1))
    /\ \A i \in 1..Len(ret.audio) : ~RatLess(Rat(1, 1), RatAbs(ret.audio[i]))

C23_AtMostN ==
    (ret.op = "get_top_features") =>
        IF voice_model.feature_importance.none
        THEN ret.top = <<>>
        ELSE LET len == Len(voice_model.feature_importance.weights)
             IN  /\ Len(ret.top) <= call.n_top
                 /\ Len(ret.top) = (IF call.n_top < len THEN call.n_top ELSE len)

\* C24 as stated: after load_model completes through either path the
\* classifier holds an importance weighting, whichever artifact the
\* training scripts have written.
C24_ImportancePopulated ==
    (ret.op = "load_model") =>
        /\ voice_model.is_loaded
        /\ voice_model.feature_importance # "None"

\* C27 as stated: the model in memory was fitted with AI voices under
\* label 1, the column predict reads as AI, so a sample to which the model
\* gives the class it was trained to call AI the higher probability is
\* never reported as HUMAN.
C27_LabelsAgree ==
    (ret.op = "predict" /\ ~ret.raised) =>
        LET ai == AiLabel(voice_model.model) + 1
            human == 3 - ai
        IN  /\ AiLabel(voice_model.model) = 1
            /\ ret.probabilities[ai] > ret.probabilities[human]
                  => ret.classification # "HUMAN"

\* C25: predict gives predict_proba the scaler's output exactly when the
\* classifier, once loaded, holds a scaler, and the raw vector otherwise,
\* as always with the bootstrapped model; when the scaler or the model
\* throws, predict raises and returns no label.
C25_ScaledIffScaler ==
    (ret.op = "predict") =>
        LET present == voice_model.scaler # "None"
            failed == \/ present /\ call.x.transform = "raise"
                      \/ call.x.infer = "raise"
        IN  /\ ret.fed = "scaled" => present
            /\ ret.fed = "raw" => ~present
            /\ ret.fed = "nothing" => (present /\ call.x.transform = "raise")
            /\ voice_model.model = "dummy" => ret.fed = "raw"
            /\ ret.raised <=> failed
            /\ ret.raised => ret.classification = "None"
            /\ ~ret.raised => ret.classification \in {"AI_GENERATED", "HUMAN"}

\* a predict that loaded the artifact and its scaler itself and fed the
\* model the standardized vector
C25_Witness ==
    /\ ret.op = "predict" /\ ~ret.raised
    /\ ~call.before.is_loaded
    /\ voice_model.scaler = "artifact"
    /\ ret.fed = "scaled"

\* C26 as stated: load_model called on a classifier that is already
\* loaded leaves model, scaler, feature_importance and is_loaded as the
\* earlier call left them.
C26_LoadIdempotent ==
    (ret.op = "load_model" /\ call.before.is_loaded) =>
        /\ voice_model.model = call.before.model
        /\ voice_model.scaler = call.before.scaler
        /\ voice_model.feature_importance = call.before.feature_importance
        /\ voice_model.is_loaded = call.before.is_loaded

\* with the files as the earlier call found them, the second call does
\* reproduce the state
ReloadSameFiles ==
    \A d \in DiskStates :
        LET once == LoadModel(NewVoiceDetectionModel, d)
            twice == LoadModel(once, d)
        IN  twice = [once EXCEPT !.loads = @ + 1]

\* C28 as stated: with the classifier unloaded and predict called from
\* several threads, no predict runs inference on a model that is not
\* loaded or not fitted, and the model, scaler and importance weighting a
\* predict uses were all assigned by one load, which had completed.
C28_LazyLoadSafe ==
    \A t \in 1..MaxRequests :
        (ret[t].op = "predict" /\ ret[t].inferred) =>
            /\ ret[t].model \in {"dummy", "artifact"}
            /\ ret[t].by.scaler = ret[t].by.model
            /\ ret[t].by.feature_importance = ret[t].by.model
            /\ ret[t].by.model \in ret[t].completed

\* the quantity each display name and each local of the explainer stands
\* for, as the extractor calls it
Quantity ==
    [x \in {"Pitch Mean", "Pitch Std", "Pitch Min", "Pitch Max", "Pitch Range",
            "RMS Mean", "RMS Std", "ZCR Mean", "ZCR Std",
            "Spectral Centroid Mean", "Spectral Centroid Std",
            "Spectral Rolloff Mean", "Spectral Rolloff Std",
            "Spectral Flatness Mean", "Spectral Flatness Std",
            "Spectral Bandwidth Mean", "Spectral Bandwidth Std",
            "Spectral Contrast Mean", "Spectral Contrast Std",
            "Onset Mean", "Onset Std", "Tempo", "Autocorr Mean",
            "Autocorr Std", "Harmonic Ratio", "Percussive Ratio",
            "pitch_std", "spectral_flatness_mean", "rms_std", "tempo",
            "harmonic_ratio", "onset_std", "autocorr_std"} |->
       CASE x = "Pitch Mean" -> "pitch_mean"
         [] x \in {"Pitch Std", "pitch_std"} -> "pitch_std"
         [] x = "Pitch Min" -> "pitch_min"
         [] x = "Pitch Max" -> "pitch_max"
         [] x = "Pitch Range" -> "pitch_range"
         [] x = "RMS Mean" -> "rms_mean"
         [] x \in {"RMS Std", "rms_std"} -> "rms_std"
         [] x = "ZCR Mean" -> "zcr_mean"
         [] x = "ZCR Std" -> "zcr_std"
         [] x = "Spectral Centroid Mean" -> "centroid_mean"
         [] x = "Spectral Centroid Std" -> "centroid_std"
         [] x = "Spectral Rolloff Mean" -> "rolloff_mean"
         [] x = "Spectral Rolloff Std" -> "rolloff_std"
         [] x \in {"Spectral Flatness Mean", "spectral_flatness_mean"} -> "flatness_mean"
         [] x = "Spectral Flatness Std" -> "flatness_std"
         [] x = "Spectral Bandwidth Mean" -> "bandwidth_mean"
         [] x = "Spectral Bandwidth Std" -> "bandwidth_std"
         [] x = "Spectral Contrast Mean" -> "contrast_mean"
         [] x = "Spectral Contrast Std" -> "contrast_std"
         [] x = "Onset Mean" -> "onset_mean"
         [] x \in {"Onset Std", "onset_std"} -> "onset_std"
         [] x \in {"Tempo", "tempo"} -> "tempo"
         [] x = "Autocorr Mean" -> "autocorr_mean"
         [] x \in {"Autocorr Std", "autocorr_std"} -> "autocorr_std"
         [] x \in {"Harmonic Ratio", "harmonic_ratio"} -> "harmonic_ratio"
         [] x = "Percussive Ratio" -> "percussive_ratio"]

\* the display name denotes the extracted element f
Denotes(name, f) ==
    IF f.family = "mfcc"
    THEN name = "MFCC-" \o ToString(f.k + 1)
    ELSE name \in DOMAIN Quantity /\ Quantity[name] = f.name

\* each read features[indices[k]] lands on the quantity its local is named for
ReadsAgree(indices, variables, features) ==
    \A k \in 1..Len(indices) :
        features[indices[k] + 1].name = Quantity[variables[k]]

\* C29: FEATURE_NAMES has 39 entries, the i-th naming the i-th element of
\* every vector extract_features returns, and the explainer's reads at 14,
\* 19, 26, 33, 34, 36 and 37 land on pitch std, RMS std, spectral-flatness
\* mean, onset std, tempo, autocorrelation std and harmonic ratio.
C29_NamesMatchLayout ==
    (ret.op = "extract_features" /\ ~ret.raised) =>
        /\ Len(FEATURE_NAMES) = 39
        /\ Len(ret.features) = Len(FEATURE_NAMES)
        /\ \A i \in 1..Len(FEATURE_NAMES) : Denotes(FEATURE_NAMES[i], ret.features[i])
        /\ ReadsAgree(AiIndices, AiVariables, ret.features)
        /\ ReadsAgree(HumanIndices, HumanVariables, ret.features)
        /\ <<ret.features[15].name, ret.features[20].name, ret.features[27].name,
              ret.features[34].name, ret.features[35].name, ret.features[37].name,
              ret.features[38].name>>
             = <<"pitch_std", "rms_std", "flatness_mean", "onset_std", "tempo",
                 "autocorr_std", "harmonic_ratio">>

\* a vector was returned whose element 34 is the tempo, named "Tempo"
C29_Witness ==
    /\ ret.op = "extract_features" /\ ~ret.raised
    /\ ret.features[35].name = "tempo"
    /\ FEATURE_NAMES[35] = "Tempo"

\* C30: every audio_base64 that passes the schema (100 characters or more,
\* strict base64) is decoded by decode_base64_audio in step 1, so no
\* request that reached the handler gets the 400 of a decode failure.
C30_DecodeNeverFails ==
    /\ \A v \in B64Strings :
          ValidateAudioBase64(v) => DecodeBase64String(v) = "bytes"
    /\ (ret.op = "detect" /\ ret.handler) => ret.status # 400

\* a request of 100 characters, padded, passed the schema and step 1; a
\* string the schema refuses for its whitespace would have decoded
C30_Witness ==
    /\ ret.op = "detect" /\ ret.handler /\ ret.status = 200
    /\ B64Len(call.audio_base64) = MIN_LENGTH
    /\ call.audio_base64.tail = "AA=="
    /\ \E v \in B64Strings :
          ~ValidateBase64(v) /\ DecodeBase64String(v) = "bytes"

====
